---- MODULE Spec2Model ----
(***************************************************************************)
(* Verification model of the Pillar Slack bot.                             *)
(*                                                                         *)
(*   Spec        one AgentService.run (services/agent_service.py): the     *)
(*               tool-use loop, its transcript, the outbound model         *)
(*               requests, status callbacks and executor invocations.      *)
(*   AgendaSpec  concurrent /pillar agenda add|view|finalize and           *)
(*               /pillar lp-letter interactions (handlers/commands.py)     *)
(*               over the agenda_items and google_tokens tables            *)
(*               (database.py), with the OAuth callback (app.py).          *)
(*   IntakeSpec  one worker finalizing while another adds and views items  *)
(*               through the slash command, the agent's agenda tools       *)
(*               (handlers/mentions.py) and the modal (handlers/events.py).*)
(*   ActivitySpec  message events and /pillar summarize|catchup|actions    *)
(*               over the user_settings table.                             *)
(*   MentionSpec concurrent mentions, each with the file-name cache of     *)
(*               its own build_tool_executors call.                        *)
(*   HandlerSpec one mention from start to end: the agenda tool, the file  *)
(*               tools, and every way agent.run and the answer can end.    *)
(*   RouteSpec   the /pillar dispatcher (handle_pillar_command) with every   *)
(*               command behind it, on one worker.                         *)
(*   OAuthSpec   GET requests served by OAuthCallbackHandler (app.py).     *)
(*   WindowSpec  the lookback of /pillar catchup and the window of the     *)
(*               get_channel_history tool, on every input.                 *)
(***************************************************************************)
EXTENDS Integers, Sequences, FiniteSets, TLC

VARIABLES
    \* ---- AgentService.run ----
    max_steps,      \* the max_steps argument
    on_status,      \* TRUE iff an on_status callback was passed
    pc,             \* position in run: model_call, tool_loop, forced_call, returned, raised
    step,           \* the for-loop variable
    messages,       \* the transcript (list of turns)
    response,       \* response.content of the last tool-enabled response
    ti,             \* index of the tool_use being processed in the inner loop
    tool_results,   \* the tool_results list of the current step
    result,         \* the returned text
    requests,       \* every client.messages.create request issued, in order
    events,         \* every on_status / executor invocation, in order
    issued,         \* number of tool_use ids the model has produced so far
    \* ---- persistent store (database.py) ----
    agenda_items,   \* table agenda_items, in id order
    google_tokens,  \* user ids that have a row in table google_tokens
    \* ---- /pillar interactions (handlers/commands.py) ----
    inter,          \* per worker: the handler's position, arguments, locals and responses
    finalized_upto, \* history: rows that existed when the latest completed finalize read the table
    \* ---- activity tracking (database.py, handlers/events.py) ----
    user_last_active,   \* table user_settings: last_active per user, 0 for no row
    now,                \* the clock read by datetime.now()
    \* ---- mentions (handlers/mentions.py) ----
    channel_files_cache,    \* the channel_files_cache dict of each build_tool_executors call
    mention,                \* per worker: the mention being answered and what its tools did
    \* ---- request surfaces (handlers/commands.py, app.py) ----
    received,           \* per worker: the text of the /pillar command being handled
    oauth_request,      \* the last GET request served by OAuthCallbackHandler and its status
    \* ---- history windows (handlers/commands.py, handlers/mentions.py, utils/slack_utils.py) ----
    catchup_window,     \* one computation of handle_catchup's lookback: inputs and hours
    history_window      \* one get_channel_history tool call: input and the window requested

agentVars == <<max_steps, on_status, pc, step, messages, response, ti,
               tool_results, result, requests, events, issued>>

storeVars == <<agenda_items, google_tokens>>
cmdVars == <<inter, finalized_upto>>

activityVars == <<user_last_active, now>>
cacheVars == <<channel_files_cache, mention>>
surfaceVars == <<received, oauth_request>>
windowVars == <<catchup_window, history_window>>

vars == <<agentVars, storeVars, cmdVars, activityVars, cacheVars, surfaceVars, windowVars>>

(***************************************************************************)
(* Bounds of the model.                                                    *)
(***************************************************************************)
MaxSteps == 2       \* max_steps ranges over 1..MaxSteps
MaxBlocks == 2      \* a model response holds at most MaxBlocks content blocks
MaxToolUses == 2    \* the model emits at most MaxToolUses tool_use blocks per run
MaxItems == 2       \* at most MaxItems rows are ever added to agenda_items
MaxTime == 2        \* the clock runs from 1 to MaxTime

(***************************************************************************)
(* Text.  A Python str is a sequence of segments [body, k, n]: the first n *)
(* characters of the text named (body, k).  Slicing is exact on lengths,   *)
(* so the 50000-character cut keeps its real width.                        *)
(***************************************************************************)
Seg(b, k, n) == [body |-> b, k |-> k, n |-> n]

Lit(s) == IF Len(s) = 0 THEN <<>> ELSE <<Seg(s, 0, Len(s))>>

Str(b, k, n) == IF n = 0 THEN <<>> ELSE <<Seg(b, k, n)>>

RECURSIVE TLen(_)
TLen(t) == IF t = <<>> THEN 0 ELSE Head(t).n + TLen(Tail(t))

\* t[:k]
RECURSIVE Slice(_, _)
Slice(t, k) ==
    IF t = <<>> \/ k <= 0 THEN <<>>
    ELSE IF Head(t).n <= k THEN <<Head(t)>> \o Slice(Tail(t), k - Head(t).n)
    ELSE <<[Head(t) EXCEPT !.n = k]>>

Range(f) == {f[i] : i \in DOMAIN f}

\* t.startswith(p)
StartsWith(t, p) == Slice(t, TLen(p)) = p

MAX_RESULT_CHARS == 50000

\* result[:50000]
Truncate_Dropped(text) == text
Truncate(text) == Slice(text, MAX_RESULT_CHARS)

ERROR_MARKER == Lit("Error: ")
NO_TEXT_FALLBACK == Lit("I couldn't find the information you need.")
FORCED_FALLBACK == Lit("I gathered some information but couldn't formulate a complete answer.")
FINAL_PROMPT == Lit("Please provide your final answer based on the information gathered so far.")

\* An optional value: None (also an absent key), or a value v as Some(v).
None == <<>>
Some(v) == <<v>>

(***************************************************************************)
(* Content blocks and turns.                                               *)
(***************************************************************************)
Block(type, id, name, text) == [type |-> type, id |-> id, name |-> name, text |-> text]
TextBlock(text) == Block("text", 0, "", text)
ToolUseBlock(id, name) == Block("tool_use", id, name, <<>>)

Turn(role, content) == [role |-> role, content |-> content]

\* The executors handed to run by handle_mention.
tool_executors ==
    {"add_to_agenda", "view_agenda", "read_files", "get_channel_history",
     "read_file_by_name", "fetch_url", "search_web", "get_portfolio_company_channel"}

\* Tool names the model requests in this model: a registered and an unregistered one.
ModelToolChoices == {"get_channel_history", "delete_channel"}

\* What an executor call can do: return a text of some length, or raise
\* an exception whose message has some length.
\* Lengths at the edge of the cut: an output that just fits and one that is one
\* character too long; a short message and one that makes "Error: " + message
\* one character too long.
OutLens == {MAX_RESULT_CHARS, MAX_RESULT_CHARS + 1}
MsgLens == {9, MAX_RESULT_CHARS - 6}
ExecOutcomes == [kind : {"return"}, n : OutLens] \cup [kind : {"raise"}, n : MsgLens]
NoOutcome == [kind |-> "none", n |-> 0]
\* get_channel_history finding no message in the period returns a fixed text.
NoMessagesOutcome == [kind |-> "empty", n |-> 0]
NO_MESSAGES == Lit("No messages found in the specified time period.")
Outcomes(name) ==
    IF name \notin tool_executors THEN {NoOutcome}
    ELSE IF name = "get_channel_history" THEN ExecOutcomes \cup {NoMessagesOutcome}
    ELSE ExecOutcomes

ExecOutput(id, n) == Str("executor output", id, n)
ExecReturn(tu, out) == IF out.kind = "empty" THEN NO_MESSAGES ELSE ExecOutput(tu.id, out.n)
ExcMessage(id, n) == Str("exception message", id, n)

(***************************************************************************)
(* Model responses: any sequence of at most MaxBlocks text / tool_use      *)
(* blocks.  Tool-use ids are fresh (the API issues unique ids); the text   *)
(* of every text block is distinct.                                        *)
(***************************************************************************)
ShapeAlphabet == {"text"} \cup ModelToolChoices
Shapes == UNION {[1..n -> ShapeAlphabet] : n \in 0..MaxBlocks}
NumToolUses(shape, i) == Cardinality({j \in 1..i : shape[j] # "text"})

MakeContent(shape, callNo, base) ==
    [i \in 1..Len(shape) |->
        IF shape[i] = "text"
        THEN TextBlock(Str("model text", callNo * (MaxBlocks + 1) + i, 20))
        ELSE ToolUseBlock(base + NumToolUses(shape, i), shape[i])]

Responses(callNo, base) ==
    {MakeContent(s, callNo, base) :
        s \in {sh \in Shapes : base + NumToolUses(sh, Len(sh)) <= MaxToolUses}}

(***************************************************************************)
(* AgentService.run                                                        *)
(***************************************************************************)
\* tool_uses = [block for block in response.content if block.type == "tool_use"]
IsToolUse(b) == b.type = "tool_use"
ToolUses(content) == SelectSeq(content, IsToolUse)

\* for block in content: if hasattr(block, "text"): return block.text
\* return fallback
TextIndexes(content) == {i \in 1..Len(content) : content[i].type = "text"}
FirstText_Last(content, fallback) ==
    IF TextIndexes(content) = {} THEN fallback
    ELSE content[CHOOSE i \in TextIndexes(content) : \A j \in TextIndexes(content) : j <= i].text
FirstText(content, fallback) ==
    IF TextIndexes(content) = {} THEN fallback
    ELSE content[CHOOSE i \in TextIndexes(content) : \A j \in TextIndexes(content) : i <= j].text

\* The text naming a tool that has no executor.
NotAvailable(name) == Lit("Tool '") \o Lit(name) \o Lit("' is not available.")

\* "Execute the tool": the lookup in tool_executors, the call under try/except,
\* and the two synthesized texts.  raises = TRUE means the exception leaves run.
ExecuteTool_NoLookup(tu, out) ==
    IF tu.name \in tool_executors
    THEN IF out.kind = "raise"
         THEN [raises |-> FALSE, text |-> ERROR_MARKER \o ExcMessage(tu.id, out.n)]
         ELSE [raises |-> FALSE, text |-> ExecReturn(tu, out)]
    ELSE [raises |-> TRUE, text |-> <<>>]
ExecuteTool_NoExcept(tu, out) ==
    IF tu.name \in tool_executors
    THEN IF out.kind = "raise"
         THEN [raises |-> TRUE, text |-> <<>>]
         ELSE [raises |-> FALSE, text |-> ExecReturn(tu, out)]
    ELSE [raises |-> FALSE, text |-> NotAvailable(tu.name)]
ExecuteTool(tu, out) ==
    IF tu.name \in tool_executors
    THEN IF out.kind = "raise"
         THEN [raises |-> FALSE, text |-> ERROR_MARKER \o ExcMessage(tu.id, out.n)]
         ELSE [raises |-> FALSE, text |-> ExecReturn(tu, out)]
    ELSE [raises |-> FALSE, text |-> NotAvailable(tu.name)]

\* {"type": "tool_result", "tool_use_id": tool_use.id, "content": result[:50000]}
ToolResult_FirstId(tu, uses, text) == Block("tool_result", uses[1].id, "", Truncate(text))
ToolResult(tu, uses, text) == Block("tool_result", tu.id, "", Truncate(text))

\* messages.append(assistant turn); messages.append(user turn with the results)
AppendStep_BeforeLastResult(msgs, content, results) ==
    msgs \o <<Turn("assistant", content),
              Turn("user", SubSeq(results, 1, Len(results) - 1))>>
AppendStep_DropsHistory(msgs, content, results) ==
    <<msgs[1], Turn("assistant", content), Turn("user", results)>>
AppendStep(msgs, content, results) ==
    msgs \o <<Turn("assistant", content), Turn("user", results)>>

\* for step in range(max_steps)
LoopContinues_OneMore(s, n) == s <= n
LoopContinues(s, n) == s < n

InitialMessages == <<Turn("user", <<TextBlock(Lit("Current context / User's request"))>>)>>

Request(tools, msgs) == [tools |-> tools, messages |-> msgs]
\* An invocation made by run: op is "on_status" or "executor"; for an executor,
\* raised and n tell what it did (raised, and the length of its output or message).
Event(op, tu, raised, n) ==
    [op |-> op, id |-> tu.id, name |-> tu.name, raised |-> raised, n |-> n]

\* The executor invocations one tool_use causes: one call if the name is
\* registered, none otherwise; a call that raised is not made again.
ExecutorInvocations_RetryOnError(tu, out) ==
    IF tu.name \notin tool_executors THEN <<>>
    ELSE IF out.kind = "raise"
    THEN <<Event("executor", tu, TRUE, out.n), Event("executor", tu, TRUE, out.n)>>
    ELSE <<Event("executor", tu, FALSE, out.n)>>
ExecutorInvocations(tu, out) ==
    IF tu.name \in tool_executors
    THEN <<Event("executor", tu, out.kind = "raise", out.n)>> ELSE <<>>

\* if on_status: on_status(...) -- one callback per tool_use, whatever its name.
StatusInvocations_RegisteredOnly(callback, tu) ==
    IF callback /\ tu.name \in tool_executors
    THEN <<Event("on_status", tu, FALSE, 0)>> ELSE <<>>
StatusInvocations(callback, tu) ==
    IF callback THEN <<Event("on_status", tu, FALSE, 0)>> ELSE <<>>

\* The forced-answer request: the final prompt is appended and no tools are passed.
ForcedMessages(msgs) == Append(msgs, Turn("user", <<TextBlock(FINAL_PROMPT)>>))
ForcedRequest_WithTools(msgs) == Request(TRUE, ForcedMessages(msgs))
ForcedRequest(msgs) == Request(FALSE, ForcedMessages(msgs))

\* With no tools offered the model answers with text blocks only.
ForcedResponses(callNo) ==
    {MakeContent(s, callNo, 0) : s \in UNION {[1..n -> {"text"}] : n \in 0..MaxBlocks}}

AgentInit ==
    /\ max_steps \in 1..MaxSteps
    /\ on_status \in BOOLEAN
    /\ pc = IF LoopContinues(0, max_steps) THEN "model_call" ELSE "forced_call"
    /\ step = 0
    /\ messages = InitialMessages
    /\ response = <<>>
    /\ ti = 1
    /\ tool_results = <<>>
    /\ result = <<>>
    /\ requests = <<>>
    /\ events = <<>>
    /\ issued = 0

\* One tool-enabled client.messages.create and the branch on tool_uses.
ModelCall ==
    /\ pc = "model_call"
    /\ requests' = Append(requests, Request(TRUE, messages))
    /\ \E content \in Responses(Len(requests) + 1, issued) :
        /\ response' = content
        /\ issued' = issued + Len(ToolUses(content))
        /\ IF ToolUses(content) = <<>>
           THEN /\ pc' = "returned"
                /\ result' = FirstText(content, NO_TEXT_FALLBACK)
                /\ UNCHANGED <<ti, tool_results>>
           ELSE /\ pc' = "tool_loop"
                /\ ti' = 1
                /\ tool_results' = <<>>
                /\ UNCHANGED result
    /\ UNCHANGED <<storeVars, cmdVars, activityVars, cacheVars, surfaceVars, windowVars>>
    /\ UNCHANGED <<max_steps, on_status, step, messages, events>>

\* client.messages.create raises (API or network failure): run raises.
ModelCallRaises ==
    /\ pc = "model_call"
    /\ requests' = Append(requests, Request(TRUE, messages))
    /\ pc' = "raised"
    /\ UNCHANGED <<storeVars, cmdVars, activityVars, cacheVars, surfaceVars, windowVars>>
    /\ UNCHANGED <<max_steps, on_status, step, messages, response, ti,
                   tool_results, result, events, issued>>

\* on_status raises inside the inner loop: run raises before the executor runs.
StatusRaises ==
    /\ pc = "tool_loop"
    /\ on_status
    /\ events' = Append(events, Event("on_status", ToolUses(response)[ti], TRUE, 0))
    /\ pc' = "raised"
    /\ UNCHANGED <<storeVars, cmdVars, activityVars, cacheVars, surfaceVars, windowVars>>
    /\ UNCHANGED <<max_steps, on_status, step, messages, response, ti,
                   tool_results, result, requests, issued>>

\* One iteration of "for tool_use in tool_uses"; after the last one the two
\* turns are appended and the outer loop advances.
ToolCall ==
    /\ pc = "tool_loop"
    /\ LET uses == ToolUses(response)
           tu == uses[ti]
       IN \E out \in Outcomes(tu.name) :
            LET r == ExecuteTool(tu, out)
                results == Append(tool_results, ToolResult(tu, uses, r.text))
            IN /\ events' = events
                     \o StatusInvocations(on_status, tu)
                     \o ExecutorInvocations(tu, out)
               /\ IF r.raises
                  THEN /\ pc' = "raised"
                       /\ UNCHANGED <<tool_results, ti, messages, step>>
                  ELSE /\ tool_results' = results
                       /\ IF ti < Len(uses)
                          THEN /\ ti' = ti + 1
                               /\ UNCHANGED <<messages, step, pc>>
                          ELSE /\ messages' = AppendStep(messages, response, results)
                               /\ step' = step + 1
                               /\ pc' = IF LoopContinues(step + 1, max_steps)
                                        THEN "model_call" ELSE "forced_call"
                               /\ UNCHANGED ti
    /\ UNCHANGED <<storeVars, cmdVars, activityVars, cacheVars, surfaceVars, windowVars>>
    /\ UNCHANGED <<max_steps, on_status, response, result, requests, issued>>

\* "Max steps reached - ask for final answer".
ForcedCall ==
    /\ pc = "forced_call"
    /\ messages' = ForcedMessages(messages)
    /\ requests' = Append(requests, ForcedRequest(messages))
    /\ \E content \in ForcedResponses(Len(requests) + 1) :
        /\ response' = content
        /\ result' = FirstText(content, FORCED_FALLBACK)
    /\ pc' = "returned"
    /\ UNCHANGED <<storeVars, cmdVars, activityVars, cacheVars, surfaceVars, windowVars>>
    /\ UNCHANGED <<max_steps, on_status, step, ti, tool_results, events, issued>>

ForcedCallRaises ==
    /\ pc = "forced_call"
    /\ messages' = ForcedMessages(messages)
    /\ requests' = Append(requests, ForcedRequest(messages))
    /\ pc' = "raised"
    /\ UNCHANGED <<storeVars, cmdVars, activityVars, cacheVars, surfaceVars, windowVars>>
    /\ UNCHANGED <<max_steps, on_status, step, response, ti, tool_results,
                   result, events, issued>>

(***************************************************************************)
(* Persistent store (database.py)                                          *)
(***************************************************************************)
Users == {"U1", "U2"}
Procs == {"w1", "w2"}
\* Who added a row is stored but read by no handler: one user adds the items.
Adders == {"U1"}
CHANNEL == "C1"

\* ORDER BY category: the categories in use, in string order.
CategoryOrder ==
    <<"Investment Decisions", "Other", "Other Business", "Pipeline",
      "Pipeline Review", "Portfolio Company Updates", "Portfolio Updates">>

\* INSERT INTO agenda_items (user_id, channel_id, category, content); ids are
\* AUTOINCREMENT and rows are never deleted; included_in_doc defaults to 0.
add_agenda_item(rows, user_id, channel_id, category, content) ==
    Append(rows, [id |-> Len(rows) + 1, user_id |-> user_id, channel_id |-> channel_id,
                  category |-> category, content |-> content,
                  included_in_doc |-> FALSE])

IsPending_All(r) == TRUE
IsPending(r) == ~r.included_in_doc
RECURSIVE OrderByCategory(_, _)
OrderByCategory(rows, i) ==
    IF i > Len(CategoryOrder) THEN <<>>
    ELSE SelectSeq(rows, LAMBDA r : r.category = CategoryOrder[i])
            \o OrderByCategory(rows, i + 1)
AsDict(r) == [id |-> r.id, user_id |-> r.user_id, channel_id |-> r.channel_id,
              category |-> r.category, content |-> r.content]

\* SELECT ... WHERE included_in_doc = 0 ORDER BY category, created_at
get_pending_agenda_items(rows) ==
    LET sel == OrderByCategory(SelectSeq(rows, IsPending), 1)
    IN [i \in 1..Len(sel) |-> AsDict(sel[i])]

\* UPDATE agenda_items SET included_in_doc = 1 WHERE id = ?  (for every id)
mark_agenda_items_included_FirstOnly(rows, item_ids) ==
    [i \in 1..Len(rows) |->
        IF item_ids # <<>> /\ rows[i].id = item_ids[1]
        THEN [rows[i] EXCEPT !.included_in_doc = TRUE] ELSE rows[i]]
mark_agenda_items_included_AllPending(rows, item_ids) ==
    [i \in DOMAIN rows |-> [rows[i] EXCEPT !.included_in_doc = TRUE]]
mark_agenda_items_included_Reset(rows, item_ids) ==
    [i \in 1..Len(rows) |-> [rows[i] EXCEPT !.included_in_doc = rows[i].id \in Range(item_ids)]]
mark_agenda_items_included(rows, item_ids) ==
    [i \in 1..Len(rows) |->
        IF rows[i].id \in Range(item_ids)
        THEN [rows[i] EXCEPT !.included_in_doc = TRUE] ELSE rows[i]]

(***************************************************************************)
(* Document service (services/google_service.py)                           *)
(***************************************************************************)
\* get_credentials is None iff the user has no google_tokens row; the
\* credentials built from a row carry no expiry, so they are valid.
is_user_authenticated_Always(tokens, user_id) == TRUE
is_user_authenticated(tokens, user_id) == user_id \in tokens

REDIRECT_URI == "http://localhost:8080/oauth/callback"
NoUrl == [state |-> "", redirect_uri |-> ""]
\* flow.authorization_url(state=user_id, ...)
get_auth_url(user_id, redirect_uri) == [state |-> user_id, redirect_uri |-> redirect_uri]

(***************************************************************************)
(* /pillar agenda and /pillar lp-letter (handlers/commands.py)             *)
(***************************************************************************)
\* One respond(...) call: the formatter used, its fixed text, the link and the
\* grouped items it carries.
Resp(kind, text, url, groups) == [kind |-> kind, text |-> text, url |-> url, groups |-> groups]
Loading(what) == Resp("loading", what, NoUrl, <<>>)
Error(text) == Resp("error", text, NoUrl, <<>>)
GoogleAuthPrompt(url) == Resp("google_auth_prompt", "To create Google Docs, I need access to your Google account.", url, <<>>)
GoogleDocCreated == Resp("google_doc_created", "", NoUrl, <<>>)

\* category_map.get(category_input, "Other Business")
CategoryInputs == {"pipeline", "misc"}
category_map(category_input) ==
    CASE category_input \in {"investment", "decision"} -> "Investment Decisions"
      [] category_input \in {"pipeline", "deal"} -> "Pipeline Review"
      [] category_input \in {"portfolio", "company"} -> "Portfolio Company Updates"
      [] OTHER -> "Other Business"

\* by_category: categories in order of first appearance, each with its contents.
RECURSIVE FirstAppearances(_)
FirstAppearances(seq) ==
    IF seq = <<>> THEN <<>>
    ELSE LET rest == FirstAppearances(SubSeq(seq, 1, Len(seq) - 1))
         IN IF seq[Len(seq)] \in Range(rest) THEN rest ELSE Append(rest, seq[Len(seq)])
GroupByCategory(items) ==
    LET cats == FirstAppearances([i \in 1..Len(items) |-> items[i].category])
    IN [g \in 1..Len(cats) |->
          LET of == SelectSeq(items, LAMBDA it : it.category = cats[g])
          IN [category |-> cats[g], contents |-> [k \in 1..Len(of) |-> of[k].content]]]

\* A worker with no interaction in hand.
\* calls lists the chat-history and model requests the handler has made.
Idle == [pc |-> "idle", cmd |-> "", arg |-> "", user |-> "", items |-> <<>>, seen |-> 0,
         out |-> <<>>, doc_attempts |-> 0, calls |-> <<>>]

Started(cmd, user, at, out) ==
    [Idle EXCEPT !.pc = at, !.cmd = cmd, !.user = user, !.out = out]

CommandInit ==
    /\ agenda_items = <<>>
    /\ google_tokens = {}
    /\ inter = [p \in Procs |-> Idle]
    /\ finalized_upto = 0

\* /pillar agenda add CATEGORY TEXT
AgendaAdd(p) ==
    /\ inter[p].pc = "idle"
    /\ Len(agenda_items) < MaxItems
    /\ \E u \in Adders, c \in CategoryInputs :
        LET category == category_map(c)
            content == Len(agenda_items) + 1   \* every item has a text of its own
        IN /\ agenda_items' = add_agenda_item(agenda_items, u, CHANNEL, category, content)
           /\ inter' = [inter EXCEPT ![p] =
                [Started("agenda add", u, "done",
                    <<Resp("agenda_confirmation", "", NoUrl,
                           <<[category |-> category, contents |-> <<content>>]>>)>>)
                 EXCEPT !.arg = c]]
    /\ UNCHANGED <<google_tokens, finalized_upto, agentVars, activityVars, cacheVars, surfaceVars, windowVars>>

\* /pillar agenda add with fewer than two words after "add"
AgendaAddUsage(p) ==
    /\ inter[p].pc = "idle"
    /\ \E u \in Users :
        inter' = [inter EXCEPT ![p] =
            Started("agenda add", u, "done",
                <<Error("Usage: /pillar agenda add [category] [item]")>>)]
    /\ UNCHANGED <<storeVars, finalized_upto, agentVars, activityVars, cacheVars, surfaceVars, windowVars>>

\* /pillar agenda view
AgendaView(p) ==
    /\ inter[p].pc = "idle"
    /\ \E u \in Users :
        LET items == get_pending_agenda_items(agenda_items)
        IN inter' = [inter EXCEPT ![p] =
            [Started("agenda view", u, "done",
                IF items = <<>>
                THEN <<Resp("text", "No pending agenda items. Add items with /pillar agenda add", NoUrl, <<>>)>>
                ELSE <<Resp("text", "*Pending Agenda Items:*", NoUrl, GroupByCategory(items))>>)
             EXCEPT !.items = items]]
    /\ UNCHANGED <<storeVars, finalized_upto, agentVars, activityVars, cacheVars, surfaceVars, windowVars>>

\* /pillar agenda finalize: the loading message and the Google auth check.
FinalizeStart(p) ==
    /\ inter[p].pc = "idle"
    /\ \E u \in Users :
        inter' = [inter EXCEPT ![p] =
            IF ~is_user_authenticated(google_tokens, u)
            THEN Started("agenda finalize", u, "done",
                    <<Loading("Generating Monday meeting agenda"),
                      GoogleAuthPrompt(get_auth_url(u, REDIRECT_URI))>>)
            ELSE Started("agenda finalize", u, "fin_read",
                    <<Loading("Generating Monday meeting agenda")>>)]
    /\ UNCHANGED <<storeVars, finalized_upto, agentVars, activityVars, cacheVars, surfaceVars, windowVars>>

\* items = get_pending_agenda_items(); the "no items" error
FinalizeRead(p) ==
    /\ inter[p].pc = "fin_read"
    /\ LET items == get_pending_agenda_items(agenda_items)
       IN inter' = [inter EXCEPT ![p] =
            IF items = <<>>
            THEN [@ EXCEPT !.pc = "done", !.seen = Len(agenda_items),
                           !.out = Append(@, Error("No agenda items to include. Add items with /pillar agenda add"))]
            ELSE [@ EXCEPT !.pc = "fin_generate", !.items = items,
                           !.seen = Len(agenda_items)]]
    /\ UNCHANGED <<storeVars, finalized_upto, agentVars, activityVars, cacheVars, surfaceVars, windowVars>>

\* agenda_content = claude.generate_meeting_agenda(items)
FinalizeGenerate(p) ==
    /\ inter[p].pc = "fin_generate"
    /\ inter' = [inter EXCEPT ![p].pc = "fin_create", ![p].calls = Append(@, "model")]
    /\ UNCHANGED <<storeVars, finalized_upto, agentVars, activityVars, cacheVars, surfaceVars, windowVars>>

\* ... and the model API raising: the exception leaves the handler.
FinalizeGenerateRaises(p) ==
    /\ inter[p].pc = "fin_generate"
    /\ inter' = [inter EXCEPT ![p].pc = "raised", ![p].calls = Append(@, "model")]
    /\ UNCHANGED <<storeVars, finalized_upto, agentVars, activityVars, cacheVars, surfaceVars, windowVars>>

\* doc = google.create_meeting_agenda_doc(...): a document, or None on failure
FinalizeCreateDoc(p) ==
    /\ inter[p].pc = "fin_create"
    /\ \E created \in BOOLEAN :
        inter' = [inter EXCEPT ![p] =
            IF created
            THEN [@ EXCEPT !.pc = "fin_mark", !.doc_attempts = @ + 1]
            ELSE [@ EXCEPT !.pc = "done", !.doc_attempts = @ + 1,
                           !.out = Append(@, Error("Failed to create Google Doc. Please check your Google connection."))]]
    /\ UNCHANGED <<storeVars, finalized_upto, agentVars, activityVars, cacheVars, surfaceVars, windowVars>>

\* mark_agenda_items_included([item["id"] for item in items]) and the answer
FinalizeMark(p) ==
    /\ inter[p].pc = "fin_mark"
    /\ agenda_items' = mark_agenda_items_included(agenda_items,
                            [i \in 1..Len(inter[p].items) |-> inter[p].items[i].id])
    /\ inter' = [inter EXCEPT ![p].pc = "done", ![p].out = Append(@, GoogleDocCreated)]
    /\ finalized_upto' = IF inter[p].seen > finalized_upto THEN inter[p].seen
                         ELSE finalized_upto
    /\ UNCHANGED <<google_tokens, agentVars, activityVars, cacheVars, surfaceVars, windowVars>>

\* /pillar lp-letter: the loading message and the Google auth check.
LpLetterStart(p) ==
    /\ inter[p].pc = "idle"
    /\ \E u \in Users :
        inter' = [inter EXCEPT ![p] =
            IF ~is_user_authenticated(google_tokens, u)
            THEN Started("lp-letter", u, "done",
                    <<Loading("Generating LP letter for {quarter}"),
                      GoogleAuthPrompt(get_auth_url(u, REDIRECT_URI))>>)
            ELSE Started("lp-letter", u, "lp_gather",
                    <<Loading("Generating LP letter for {quarter}")>>)]
    /\ UNCHANGED <<storeVars, finalized_upto, agentVars, activityVars, cacheVars, surfaceVars, windowVars>>

\* Portfolio channels, per-company updates and the full letter: no channels,
\* no activity, an API call raising, or a letter ready for the document.
LpLetterGather(p) ==
    /\ inter[p].pc = "lp_gather"
    /\ \E outcome \in {"no_channels", "no_activity", "raises", "letter"} :
        inter' = [inter EXCEPT ![p] =
            CASE outcome = "no_channels" ->
                    [@ EXCEPT !.pc = "done",
                              !.out = Append(@, Error("No portfolio channels found. Cannot generate LP letter."))]
              [] outcome = "no_activity" ->
                    [@ EXCEPT !.pc = "done", !.calls = <<"get_channel_history">>,
                              !.out = Append(@, Error("No portfolio activity found for this quarter."))]
              [] outcome = "raises" ->
                    [@ EXCEPT !.pc = "raised", !.calls = <<"get_channel_history", "model">>]
              [] OTHER -> [@ EXCEPT !.pc = "lp_create",
                                    !.calls = <<"get_channel_history", "model">>]]
    /\ UNCHANGED <<storeVars, finalized_upto, agentVars, activityVars, cacheVars, surfaceVars, windowVars>>

\* doc = google.create_lp_letter_doc(...)
LpLetterCreateDoc(p) ==
    /\ inter[p].pc = "lp_create"
    /\ \E created \in BOOLEAN :
        inter' = [inter EXCEPT ![p] =
            [@ EXCEPT !.pc = "done", !.doc_attempts = @ + 1,
                      !.out = Append(@, IF created THEN GoogleDocCreated
                                        ELSE Error("Failed to create Google Doc. Please check your Google connection."))]]
    /\ UNCHANGED <<storeVars, finalized_upto, agentVars, activityVars, cacheVars, surfaceVars, windowVars>>

\* The handler has returned (or raised): the worker is free again.
Release(p) ==
    /\ inter[p].pc \in {"done", "raised"}
    /\ inter' = [inter EXCEPT ![p] = Idle]
    /\ received' = [received EXCEPT ![p] = <<"(none)">>]
    /\ UNCHANGED <<storeVars, finalized_upto, oauth_request, agentVars, activityVars,
                   cacheVars, windowVars>>

\* GET requests to the OAuth server: the path and the two query parameters,
\* each absent, blank or given; the state value is the requesting user's id.
CALLBACK_PATH == "/oauth/callback"
PathInputs == {CALLBACK_PATH, "/"}
CodeInputs == {None, Some(""), Some("4/code")}
StateInputs == {None, Some("")} \cup {Some(u) : u \in Users}

\* parse_qs(query).get(name, [None])[0]: a blank value counts as absent.
query_param(raw) == IF raw = Some("") THEN None ELSE raw

\* GoogleService.handle_oauth_callback: fetch_token and save_google_token
\* under try/except; exchanged = FALSE when either raises.
handle_oauth_callback_SaveFirst(tokens, user_id, exchanged) ==
    [success |-> exchanged, tokens |-> tokens \cup {user_id}]
handle_oauth_callback(tokens, user_id, exchanged) ==
    IF exchanged THEN [success |-> TRUE, tokens |-> tokens \cup {user_id}]
    ELSE [success |-> FALSE, tokens |-> tokens]

\* OAuthCallbackHandler.do_GET: the status sent and the token table after it.
do_GET(tokens, path, raw_code, raw_state, exchanged) ==
    LET code == query_param(raw_code)
        state == query_param(raw_state)
    IN IF path # CALLBACK_PATH THEN [status |-> 404, tokens |-> tokens]
       ELSE IF code = None \/ state = None THEN [status |-> 400, tokens |-> tokens]
       ELSE LET r == handle_oauth_callback(tokens, state[1], exchanged)
            IN [status |-> IF r.success THEN 200 ELSE 500, tokens |-> r.tokens]

\* A GET request served next to the commands: its effect on the token table.
OAuthCallback ==
    /\ \E r \in {do_GET(google_tokens, path, code, state, exchanged) :
                    path \in PathInputs, code \in CodeInputs,
                    state \in StateInputs, exchanged \in BOOLEAN} :
        google_tokens' = r.tokens
    /\ UNCHANGED <<agenda_items, cmdVars, agentVars, activityVars, cacheVars, surfaceVars, windowVars>>

\* A GET request with the request and the status sent kept for inspection.
OAuthCallbackRequest ==
    /\ \E path \in PathInputs, code \in CodeInputs, state \in StateInputs, exchanged \in BOOLEAN :
        LET r == do_GET(google_tokens, path, code, state, exchanged)
        IN /\ google_tokens' = r.tokens
           /\ oauth_request' = [path |-> path, code |-> code, state |-> state,
                                exchanged |-> exchanged, status |-> r.status]
    /\ UNCHANGED <<agenda_items, received, cmdVars, agentVars, activityVars, cacheVars, windowVars>>

(***************************************************************************)
(* Agenda tools of the agent (handlers/mentions.py) and the agenda modal   *)
(* (handlers/events.py)                                                    *)
(***************************************************************************)
\* valid_categories, also the order in which execute_view_agenda prints.
valid_categories == <<"Investment Decisions", "Pipeline", "Portfolio Updates", "Other">>

\* if category not in valid_categories: category = "Other"
ValidateCategory_Keep(category) == category
ValidateCategory(category) ==
    IF category \in Range(valid_categories) THEN category ELSE "Other"

\* The text a tool executor returns, with the items it names.
ToolText(text, groups) == Resp("tool_result", text, NoUrl, groups)

\* execute_add_to_agenda: content = 0 stands for an empty content.
execute_add_to_agenda(rows, category, content, user_id, channel_id) ==
    IF content = 0
    THEN [rows |-> rows, text |-> ToolText("No content provided for the agenda item.", <<>>)]
    ELSE LET cat == ValidateCategory(category)
         IN [rows |-> add_agenda_item(rows, user_id, channel_id, cat, content),
             text |-> ToolText("Added to Monday agenda under",
                               <<[category |-> cat, contents |-> <<content>>]>>)]

\* execute_view_agenda: the lines printed, one group per category of
\* valid_categories that has pending items.
ToolViewGroups(items) ==
    LET printed == SelectSeq(valid_categories,
                        LAMBDA c : \E i \in DOMAIN items : items[i].category = c)
    IN [g \in 1..Len(printed) |->
          LET of == SelectSeq(items, LAMBDA it : it.category = printed[g])
          IN [category |-> printed[g], contents |-> [k \in 1..Len(of) |-> of[k].content]]]
execute_view_agenda(rows) ==
    LET items == get_pending_agenda_items(rows)
    IN IF items = <<>>
       THEN ToolText("The Monday agenda is empty. No items have been added yet.", <<>>)
       ELSE ToolText("Current Monday Investment Review Agenda:", ToolViewGroups(items))

\* Categories the model passes to add_to_agenda: one of the enum, one outside.
ToolCategoryInputs == {"Pipeline", "Deals"}

\* The add_to_agenda executor, called from an agent run on worker p.
ToolAddToAgenda(p) ==
    /\ inter[p].pc = "idle"
    /\ Len(agenda_items) < MaxItems
    /\ \E u \in Adders, c \in ToolCategoryInputs, content \in {0, Len(agenda_items) + 1} :
        LET r == execute_add_to_agenda(agenda_items, c, content, u, CHANNEL)
        IN /\ agenda_items' = r.rows
           /\ inter' = [inter EXCEPT ![p] =
                [Started("add_to_agenda", u, "done", <<r.text>>) EXCEPT !.arg = c]]
    /\ UNCHANGED <<google_tokens, finalized_upto, agentVars, activityVars, cacheVars, surfaceVars, windowVars>>

\* The view_agenda executor, called from an agent run on worker p.
ToolViewAgenda(p) ==
    /\ inter[p].pc = "idle"
    /\ \E u \in Adders :
        inter' = [inter EXCEPT ![p] =
            [Started("view_agenda", u, "done", <<execute_view_agenda(agenda_items)>>)
             EXCEPT !.items = get_pending_agenda_items(agenda_items)]]
    /\ UNCHANGED <<storeVars, finalized_upto, agentVars, activityVars, cacheVars, surfaceVars, windowVars>>

\* private_metadata of the modal: the category of the button that opened it.
ModalCategories == {"Investment Decisions", "Portfolio Company Updates"}

\* handle_agenda_modal_submit: the row is stored with the user's id as channel
\* (the submission body carries no channel); the DM confirmation may fail.
AgendaModalSubmit(p) ==
    /\ inter[p].pc = "idle"
    /\ Len(agenda_items) < MaxItems
    /\ \E u \in Adders, category \in ModalCategories, dm \in BOOLEAN :
        LET content == Len(agenda_items) + 1
        IN /\ agenda_items' = add_agenda_item(agenda_items, u, u, category, content)
           /\ inter' = [inter EXCEPT ![p] =
                [Started("agenda modal", u, "done",
                    IF dm THEN <<Resp("agenda_confirmation", "", NoUrl,
                                      <<[category |-> category, contents |-> <<content>>]>>)>>
                    ELSE <<>>)
                 EXCEPT !.arg = category]]
    /\ UNCHANGED <<google_tokens, finalized_upto, agentVars, activityVars, cacheVars, surfaceVars, windowVars>>

(***************************************************************************)
(* Activity tracking and the channel commands: handle_message              *)
(* (handlers/events.py), /pillar summarize, catchup and actions            *)
(* (handlers/commands.py), table user_settings (database.py)               *)
(***************************************************************************)
\* INSERT INTO user_settings ... ON CONFLICT(user_id) DO UPDATE SET last_active = now
save_user_last_active(tbl, user_id, t) == [tbl EXCEPT ![user_id] = t]

\* Message subtypes handle_message skips.
SKIPPED_SUBTYPES == {"bot_message", "message_changed", "message_deleted"}
\* Subtypes of the events in this model: an ordinary message and a bot message.
Subtypes == {"", "bot_message"}

ActivityInit ==
    /\ user_last_active = [u \in Users |-> 0]
    /\ now = 1

\* Time passes.
Tick ==
    /\ now < MaxTime
    /\ now' = now + 1
    /\ UNCHANGED <<user_last_active, storeVars, cmdVars, agentVars, cacheVars, surfaceVars, windowVars>>

\* handle_message: a message event, with or without a user.
MessageEvent(p) ==
    /\ inter[p].pc = "idle"
    /\ \E subtype \in Subtypes, u \in Users \cup {""} :
        /\ inter' = [inter EXCEPT ![p] =
                [Started("message", u, "done", <<>>) EXCEPT !.arg = subtype]]
        /\ user_last_active' =
                IF subtype \notin SKIPPED_SUBTYPES /\ u # ""
                THEN save_user_last_active(user_last_active, u, now)
                ELSE user_last_active
    /\ UNCHANGED <<now, storeVars, finalized_upto, agentVars, cacheVars, surfaceVars, windowVars>>

\* The start of a channel command: the loading message, get_channel_history
\* (a chat API error is caught there and leaves no messages), and the answer
\* given when there is no message.
ChannelCommandStart(p, cmd, loading, nothing, next) ==
    /\ inter[p].pc = "idle"
    /\ \E u \in Users, found \in BOOLEAN :
        inter' = [inter EXCEPT ![p] =
            [(IF found THEN Started(cmd, u, next, <<Loading(loading)>>)
              ELSE Started(cmd, u, "done", <<Loading(loading), nothing>>))
             EXCEPT !.calls = <<"get_channel_history">>]]
    /\ UNCHANGED <<activityVars, storeVars, finalized_upto, agentVars, cacheVars, surfaceVars, windowVars>>

\* handle_summarize up to the model call
SummarizeStart(p) ==
    ChannelCommandStart(p, "summarize", "Analyzing channel history",
        Error("No messages found in the specified time period."), "sum_model")

\* summary = claude.summarize_messages(messages); save_user_last_active; respond
SummarizeModel(p) ==
    /\ inter[p].pc = "sum_model"
    /\ \E answered \in BOOLEAN :
        IF answered
        THEN /\ user_last_active' = save_user_last_active(user_last_active, inter[p].user, now)
             /\ inter' = [inter EXCEPT ![p].pc = "done", ![p].calls = Append(@, "model"),
                                       ![p].out = Append(@, Resp("summary", "", NoUrl, <<>>))]
        ELSE /\ inter' = [inter EXCEPT ![p].pc = "raised", ![p].calls = Append(@, "model")]
             /\ UNCHANGED user_last_active
    /\ UNCHANGED <<now, storeVars, finalized_upto, agentVars, cacheVars, surfaceVars, windowVars>>

\* handle_catchup up to the model call; with no new message it answers and returns
CatchupStart(p) ==
    ChannelCommandStart(p, "catchup", "Preparing your catch-up",
        Resp("text", "You're all caught up! No new messages since your last visit.", NoUrl, <<>>),
        "catch_model")

\* summary = claude.summarize_messages(messages, context=...); save_user_last_active; respond
CatchupModel(p) ==
    /\ inter[p].pc = "catch_model"
    /\ \E answered \in BOOLEAN :
        IF answered
        THEN /\ user_last_active' = save_user_last_active(user_last_active, inter[p].user, now)
             /\ inter' = [inter EXCEPT ![p].pc = "done", ![p].calls = Append(@, "model"),
                                       ![p].out = Append(@, Resp("summary", "", NoUrl, <<>>))]
        ELSE /\ inter' = [inter EXCEPT ![p].pc = "raised", ![p].calls = Append(@, "model")]
             /\ UNCHANGED user_last_active
    /\ UNCHANGED <<now, storeVars, finalized_upto, agentVars, cacheVars, surfaceVars, windowVars>>

\* handle_actions up to the model call
ActionsStart(p) ==
    ChannelCommandStart(p, "actions", "Extracting action items",
        Error("No messages found in the specified time period."), "act_model")

\* action_items = claude.extract_action_items(...); respond
ActionsModel(p) ==
    /\ inter[p].pc = "act_model"
    /\ \E answered \in BOOLEAN :
        inter' = [inter EXCEPT ![p] =
            IF answered
            THEN [@ EXCEPT !.pc = "done", !.calls = Append(@, "model"),
                           !.out = Append(@, Resp("action_items", "", NoUrl, <<>>))]
            ELSE [@ EXCEPT !.pc = "raised", !.calls = Append(@, "model")]]
    /\ UNCHANGED <<activityVars, storeVars, finalized_upto, agentVars, cacheVars, surfaceVars, windowVars>>

(***************************************************************************)
(* The file cache of a mention's tools (handlers/mentions.py)              *)
(***************************************************************************)
Channels == {"C1", "C2"}
File(name, channel) == [name |-> name, channel |-> channel]
NoFile == File("", "")

\* The files shared in each channel's recent history, oldest first.
HistoryFiles(channel) ==
    IF channel = "C1" THEN <<File("Deck.pdf", "C1")>> ELSE <<File("Notes.txt", "C2")>>

\* str.lower() and fname.rsplit(".", 1)[0] on the names of this model.
lower(name) ==
    CASE name = "Deck.pdf" -> "deck.pdf"
      [] name = "Deck" -> "deck"
      [] name = "Notes.txt" -> "notes.txt"
      [] name = "Help" -> "help"
      [] name = "Frobnicate" -> "frobnicate"
      [] name = "Agenda" -> "agenda"
      [] OTHER -> name
base_name(fname) ==
    CASE fname = "Deck.pdf" -> "Deck"
      [] fname = "Notes.txt" -> "Notes"
      [] OTHER -> fname
\* a in b, on the lower-case names of this model
IsIn(a, b) ==
    \/ a = b
    \/ a = ""
    \/ <<a, b>> \in {<<"deck", "deck.pdf">>, <<"notes", "notes.txt">>}

\* A dict, in insertion order: d[k] = v keeps the place of an existing key.
DictKeys(d) == {d[i].key : i \in DOMAIN d}
DictGet(d, k) == d[CHOOSE i \in DOMAIN d : d[i].key = k].value
DictSet(d, k, v) ==
    IF k \in DictKeys(d)
    THEN [i \in DOMAIN d |-> IF d[i].key = k THEN [key |-> k, value |-> v] ELSE d[i]]
    ELSE Append(d, [key |-> k, value |-> v])

\* The dict a run's executors close over: build_tool_executors makes a new
\* one at every call, so the cell is the handler invocation's own.
CacheCell_Shared(p) == "w1"
CacheCell(p) == p

\* "Track files for later retrieval": both keys of every file of the messages
RECURSIVE CacheFiles(_, _)
CacheFiles(d, files) ==
    IF files = <<>> THEN d
    ELSE LET f == Head(files)
         IN CacheFiles(DictSet(DictSet(d, lower(f.name), f), lower(base_name(f.name)), f),
                       Tail(files))

\* First element of a sequence satisfying Test, or NoFile.
FirstMatch(seq, Test(_)) ==
    IF \E i \in DOMAIN seq : Test(seq[i])
    THEN seq[CHOOSE i \in DOMAIN seq : Test(seq[i]) /\ \A j \in 1..(i - 1) : ~Test(seq[j])]
    ELSE [key |-> "", value |-> NoFile, name |-> "", channel |-> ""]

\* The cache lookup of execute_read_file_by_name: exact key, then partial match
\* in insertion order.
CacheLookup(d, file_name_lower) ==
    IF file_name_lower \in DictKeys(d) THEN DictGet(d, file_name_lower)
    ELSE FirstMatch(d, LAMBDA e : IsIn(file_name_lower, e.key) \/ IsIn(e.key, file_name_lower)).value

\* "File not in cache - need to search channel history"
HistoryLookup(files, file_name_lower) ==
    LET hit == FirstMatch(files, LAMBDA f : IsIn(file_name_lower, lower(f.name))
                                              \/ IsIn(lower(f.name), file_name_lower))
    IN File(hit.name, hit.channel)

\* File names the model asks for.
FileNameInputs == {"Deck", "notes.txt"}

\* user is the mentioning user; run tells how agent.run ended ("" while it has
\* not); posts are the messages said at the start and at the end (the status
\* messages in between are left out); added holds the ids of the agenda rows
\* stored by the run's add_to_agenda calls.
MentionIdle == [pc |-> "idle", channel |-> "", cached |-> {}, found |-> NoFile,
                from_cache |-> FALSE, user |-> "", run |-> "", posts |-> <<>>,
                added |-> {}]

GREETING == Resp("text", "Hey! I'm the Pillar VC bot.", NoUrl, <<>>)
THINKING == Resp("text", "_Thinking..._", NoUrl, <<>>)
APOLOGY == Resp("text", "Sorry, something went wrong. Try again?", NoUrl, <<>>)
\* send_response(say, markdown_to_slack(result), thread_ts)
Answer == Resp("answer", "", NoUrl, <<>>)

\* The end of handle_mention after agent.run: how the run ended ("returned" or
\* "raised"), the row of user_settings, and the message said.  outcome is
\* "answer", "run_raises" (agent.run raised) or "send_raises" (the answer
\* could not be posted).
finish_mention_SaveFirst(tbl, user_id, t, outcome) ==
    [run |-> IF outcome = "run_raises" THEN "raised" ELSE "returned",
     last_active |-> save_user_last_active(tbl, user_id, t),
     post |-> IF outcome = "answer" THEN Answer ELSE APOLOGY]
finish_mention(tbl, user_id, t, outcome) ==
    [run |-> IF outcome = "run_raises" THEN "raised" ELSE "returned",
     last_active |-> IF outcome = "run_raises" THEN tbl
                     ELSE save_user_last_active(tbl, user_id, t),
     post |-> IF outcome = "answer" THEN Answer ELSE APOLOGY]

CacheInit ==
    /\ channel_files_cache = [p \in Procs |-> <<>>]
    /\ mention = [p \in Procs |-> MentionIdle]

\* handle_mention up to agent.run: a mention with no text is greeted; otherwise
\* build_tool_executors makes the run's cache and "Thinking" is said.
MentionStart(p) ==
    /\ mention[p].pc = "idle"
    /\ \E channel \in Channels, u \in Users, empty \in BOOLEAN :
        IF empty
        THEN /\ mention' = [mention EXCEPT ![p] =
                    [MentionIdle EXCEPT !.pc = "done", !.channel = channel, !.user = u,
                                        !.posts = <<GREETING>>]]
             /\ UNCHANGED channel_files_cache
        ELSE /\ mention' = [mention EXCEPT ![p] =
                    [MentionIdle EXCEPT !.pc = "running", !.channel = channel, !.user = u,
                                        !.posts = <<THINKING>>]]
             /\ channel_files_cache' = [channel_files_cache EXCEPT ![CacheCell(p)] = <<>>]
    /\ UNCHANGED <<activityVars, storeVars, cmdVars, agentVars, surfaceVars, windowVars>>

\* execute_add_to_agenda called by the run of worker p
MentionAddToAgenda(p) ==
    /\ mention[p].pc = "running"
    /\ Len(agenda_items) < MaxItems
    /\ \E c \in ToolCategoryInputs, content \in {0, Len(agenda_items) + 1} :
        LET r == execute_add_to_agenda(agenda_items, c, content,
                                       mention[p].user, mention[p].channel)
        IN /\ agenda_items' = r.rows
           /\ mention' = [mention EXCEPT ![p].added =
                    @ \cup {r.rows[i].id : i \in (Len(agenda_items) + 1)..Len(r.rows)}]
    /\ UNCHANGED <<google_tokens, channel_files_cache, activityVars, cmdVars, agentVars,
                   surfaceVars, windowVars>>

\* execute_get_channel_history: the files of the context channel's messages
\* are cached; a failed history call leaves no message.
MentionGetChannelHistory(p) ==
    /\ mention[p].pc = "running"
    /\ \E fetched \in BOOLEAN :
        LET files == IF fetched THEN HistoryFiles(mention[p].channel) ELSE <<>>
        IN /\ channel_files_cache' = [channel_files_cache EXCEPT
                    ![CacheCell(p)] = CacheFiles(@, files)]
           /\ mention' = [mention EXCEPT ![p].cached = @ \cup Range(files),
                                         ![p].found = NoFile, ![p].from_cache = FALSE]
    /\ UNCHANGED <<activityVars, storeVars, cmdVars, agentVars, surfaceVars, windowVars>>

\* execute_read_file_by_name: the cache first, then the channel history.
MentionReadFileByName(p) ==
    /\ mention[p].pc = "running"
    /\ \E file_name \in FileNameInputs, fetched \in BOOLEAN :
        LET cached == CacheLookup(channel_files_cache[CacheCell(p)], lower(file_name))
            files == IF fetched THEN HistoryFiles(mention[p].channel) ELSE <<>>
        IN mention' = [mention EXCEPT
                ![p].found = IF cached # NoFile THEN cached
                             ELSE HistoryLookup(files, lower(file_name)),
                ![p].from_cache = cached # NoFile]
    /\ UNCHANGED <<channel_files_cache, activityVars, storeVars, cmdVars, agentVars, surfaceVars, windowVars>>

\* agent.run returns or raises and handle_mention answers.
MentionEnd(p) ==
    /\ mention[p].pc = "running"
    /\ \E outcome \in {"answer", "run_raises", "send_raises"} :
        LET r == finish_mention(user_last_active, mention[p].user, now, outcome)
        IN /\ user_last_active' = r.last_active
           /\ mention' = [mention EXCEPT ![p].pc = "done", ![p].run = r.run,
                                         ![p].posts = Append(@, r.post)]
    /\ UNCHANGED <<now, channel_files_cache, storeVars, cmdVars, agentVars, surfaceVars, windowVars>>

\* handle_mention has returned: the worker is free again.
MentionRelease(p) ==
    /\ mention[p].pc = "done"
    /\ mention' = [mention EXCEPT ![p] = MentionIdle]
    /\ UNCHANGED <<channel_files_cache, activityVars, storeVars, cmdVars, agentVars, surfaceVars, windowVars>>

(***************************************************************************)
(* Request surfaces: the /pillar dispatcher (handlers/commands.py) and the *)
(* OAuth callback endpoint (app.py)                                        *)
(***************************************************************************)
NoCommand == <<"(none)">>
NoRequest == [path |-> "", code |-> <<>>, state |-> <<>>, exchanged |-> FALSE, status |-> 0]

SurfaceInit ==
    /\ received = [p \in Procs |-> NoCommand]
    /\ oauth_request = NoRequest

\* command["text"]: a sequence of words and runs of white space.  ARGS stands
\* for two or more words, the category and the item of an agenda add.
WS == " "
ARGS == "[category] [item]"
CommandTexts ==
    {<<>>, <<WS>>, <<"help">>, <<WS, "Help", WS>>, <<"helpme">>,
     <<"frobnicate">>, <<"Frobnicate", WS, "now">>,
     <<"summarize">>, <<"catchup">>, <<"actions">>,
     <<"agenda">>, <<"Agenda", WS, "view">>, <<"agenda", WS, "finalize">>,
     <<"agenda", WS, "add">>, <<"agenda", WS, "add", WS, ARGS>>,
     <<"portfolio">>, <<"portfolio", WS, "Acme">>, <<"lp-letter">>}

\* str.strip() and str.split(maxsplit=1)
WordIndexes(text) == {i \in 1..Len(text) : text[i] # WS}
First(S) == CHOOSE i \in S : \A j \in S : i <= j
strip(text) ==
    IF WordIndexes(text) = {} THEN <<>>
    ELSE SubSeq(text, First(WordIndexes(text)),
                CHOOSE i \in WordIndexes(text) : \A j \in WordIndexes(text) : j <= i)
split_once(text) ==
    LET words == WordIndexes(text)
    IN IF words = {} THEN <<>>
       ELSE LET later == words \ {First(words)}
            IN IF later = {} THEN <<text[First(words)]>>
               ELSE <<text[First(words)], SubSeq(text, First(later), Len(text))>>

\* subcommand = parts[0].lower() if parts else "help"; args = parts[1] or ""
subcommand_NoDefault(parts) == IF parts # <<>> THEN lower(parts[1]) ELSE ""
subcommand(parts) == IF parts # <<>> THEN lower(parts[1]) ELSE "help"
args(parts) == IF Len(parts) > 1 THEN parts[2] ELSE <<>>

UnknownCommand(name) ==
    Error("Unknown command: " \o name \o ". Use /pillar help for available commands.")
Help == Resp("help", "Pillar VC Bot - Help", NoUrl, <<>>)
AgendaPrompt == Resp("agenda_prompt", "Monday Meeting Agenda Builder", NoUrl, <<>>)

\* A /pillar command arrives at a free worker: ack() and the payload.
ReceiveCommand(p) ==
    /\ inter[p].pc = "idle"
    /\ received[p] = NoCommand
    /\ \E text \in CommandTexts : received' = [received EXCEPT ![p] = text]
    /\ UNCHANGED <<oauth_request, storeVars, cmdVars, agentVars, activityVars, cacheVars, windowVars>>

\* An answer given at once by the dispatcher or by handle_agenda.
AnswerAtOnce(p, cmd, resp) ==
    /\ \E u \in Users : inter' = [inter EXCEPT ![p] = Started(cmd, u, "done", <<resp>>)]
    /\ UNCHANGED <<storeVars, finalized_upto, agentVars, activityVars, cacheVars, surfaceVars, windowVars>>

\* handle_portfolio up to the model call: the list of companies or channels
\* without a company name; with one, the channel's history when the channel
\* exists and the error when nothing is known about the company.
PortfolioStart(p, company) ==
    /\ \E u \in Users, listed \in BOOLEAN, channel \in BOOLEAN, known \in BOOLEAN :
        inter' = [inter EXCEPT ![p] =
            IF company = <<>>
            THEN Started("portfolio", u, "done",
                    <<IF listed THEN Resp("text", "*Portfolio Companies:*", NoUrl, <<>>)
                      ELSE Error("No portfolio channels found.")>>)
            ELSE [(IF known
                   THEN Started("portfolio", u, "port_model", <<Loading("Gathering updates")>>)
                   ELSE Started("portfolio", u, "done",
                            <<Loading("Gathering updates"),
                              Error("Could not find channel or data for the company.")>>))
                  EXCEPT !.calls = IF channel THEN <<"get_channel_history">> ELSE <<>>]]
    /\ UNCHANGED <<storeVars, finalized_upto, agentVars, activityVars, cacheVars, surfaceVars, windowVars>>

\* update = claude.generate_portfolio_update(...); respond
PortfolioModel(p) ==
    /\ inter[p].pc = "port_model"
    /\ \E answered \in BOOLEAN :
        inter' = [inter EXCEPT ![p] =
            IF answered
            THEN [@ EXCEPT !.pc = "done", !.calls = Append(@, "model"),
                           !.out = Append(@, Resp("portfolio_update", "", NoUrl, <<>>))]
            ELSE [@ EXCEPT !.pc = "raised", !.calls = Append(@, "model")]]
    /\ UNCHANGED <<storeVars, finalized_upto, agentVars, activityVars, cacheVars, surfaceVars, windowVars>>

\* handle_agenda: the routing on the first word of args.
handle_agenda(p, agenda_args) ==
    LET parts == split_once(agenda_args)
        sub == IF parts # <<>> THEN lower(parts[1]) ELSE ""
    IN CASE sub = "add" ->
                IF args(parts) = <<ARGS>> THEN AgendaAdd(p) ELSE AgendaAddUsage(p)
         [] sub = "finalize" -> FinalizeStart(p)
         [] sub = "view" -> AgendaView(p)
         [] OTHER -> AnswerAtOnce(p, "agenda", AgendaPrompt)

\* handle_pillar_command: the routing on the first word of the text.
handle_pillar_command(p) ==
    /\ inter[p].pc = "idle"
    /\ received[p] # NoCommand
    /\ LET parts == split_once(strip(received[p]))
           sub == subcommand(parts)
       IN CASE sub = "summarize" -> SummarizeStart(p)
            [] sub = "catchup" -> CatchupStart(p)
            [] sub = "actions" -> ActionsStart(p)
            [] sub = "agenda" -> handle_agenda(p, args(parts))
            [] sub = "portfolio" -> PortfolioStart(p, args(parts))
            [] sub = "lp-letter" -> LpLetterStart(p)
            [] sub = "help" -> AnswerAtOnce(p, "help", Help)
            [] OTHER -> AnswerAtOnce(p, "unknown", UnknownCommand(sub))

(***************************************************************************)
(* History windows                                                         *)
(***************************************************************************)
NoWindow == [pc |-> "idle"]

WindowInit ==
    /\ catchup_window = NoWindow
    /\ history_window = NoWindow

max(a, b) == IF a >= b THEN a ELSE b
min(a, b) == IF a <= b THEN a ELSE b
\* int(a / b) for b > 0: the quotient cut toward zero
TruncDiv(a, b) == IF a >= 0 THEN a \div b ELSE -((-a) \div b)

SECONDS_PER_HOUR == 3600
FIRST_CATCHUP_HOURS == 24
MAX_CATCHUP_HOURS == 168
MAX_TOOL_HOURS == 168
DEFAULT_TOOL_HOURS == 24
DEFAULT_SUMMARY_HOURS == 24

\* handle_catchup: the lookback in hours, from the stored last-active time and
\* the clock (both in seconds).
catchup_hours_NoFloor(last_active, t) ==
    IF last_active = None THEN FIRST_CATCHUP_HOURS
    ELSE LET hours == TruncDiv(t - last_active[1], SECONDS_PER_HOUR)
         IN IF hours > MAX_CATCHUP_HOURS THEN MAX_CATCHUP_HOURS ELSE hours
catchup_hours(last_active, t) ==
    IF last_active = None THEN FIRST_CATCHUP_HOURS
    ELSE LET hours == max(1, TruncDiv(t - last_active[1], SECONDS_PER_HOUR))
         IN IF hours > MAX_CATCHUP_HOURS THEN MAX_CATCHUP_HOURS ELSE hours

\* execute_get_channel_history: hours = min(tool_input.get("hours", 24), 168)
tool_hours_NoCap(input) == IF input = None THEN DEFAULT_TOOL_HOURS ELSE input[1]
tool_hours(input) ==
    min(IF input = None THEN DEFAULT_TOOL_HOURS ELSE input[1], MAX_TOOL_HOURS)

\* SlackUtils.get_channel_history(channel_id, hours=hours): the hours between
\* the oldest timestamp requested and the clock ("elif hours:" is false for 0).
requested_window(hours) == IF hours # 0 THEN hours ELSE DEFAULT_SUMMARY_HOURS

\* The clock and the seconds since the stored last-active time, around the
\* edges of the clamp and for a time in the future.
ClockInputs == {2000000}
ElapsedInputs ==
    {-7200, -3600, -1, 0, 1, 3599, 3600, 3601, 7199, 7200,
     168 * 3600 - 1, 168 * 3600, 168 * 3600 + 1, 169 * 3600, 1000 * 3600}
\* Values of tool_input["hours"]; None for an absent key.
HoursInputs == {None} \cup {Some(h) : h \in {-5, 0, 1, 24, 167, 168, 169, 1000}}

WindowInputs ==
    /\ catchup_window \in
          [pc : {"input"}, now : ClockInputs, hours : {0},
           last_active : {None} \cup {Some(t - e) : t \in ClockInputs, e \in ElapsedInputs}]
    /\ history_window \in [pc : {"input"}, input : HoursInputs, hours : {0}, window : {0}]

\* handle_catchup up to the loading message
CatchupWindow ==
    /\ catchup_window.pc = "input"
    /\ catchup_window' = [catchup_window EXCEPT
            !.pc = "done", !.hours = catchup_hours(catchup_window.last_active, catchup_window.now)]
    /\ UNCHANGED <<history_window, agentVars, storeVars, cmdVars, activityVars, cacheVars, surfaceVars>>

\* execute_get_channel_history up to the conversations.history request
HistoryWindow ==
    /\ history_window.pc = "input"
    /\ LET hours == tool_hours(history_window.input)
       IN history_window' = [history_window EXCEPT
            !.pc = "done", !.hours = hours, !.window = requested_window(hours)]
    /\ UNCHANGED <<catchup_window, agentVars, storeVars, cmdVars, activityVars, cacheVars, surfaceVars>>

\* The agent run takes no part in AgendaSpec, and the commands none in Spec.
AgentAbsent ==
    /\ max_steps = 1
    /\ on_status = FALSE
    /\ pc = "absent"
    /\ step = 0
    /\ messages = <<>>
    /\ response = <<>>
    /\ ti = 1
    /\ tool_results = <<>>
    /\ result = <<>>
    /\ requests = <<>>
    /\ events = <<>>
    /\ issued = 0

Init == AgentInit /\ CommandInit /\ ActivityInit /\ CacheInit /\ SurfaceInit /\ WindowInit

Next ==
    \/ ModelCall
    \/ ModelCallRaises
    \/ StatusRaises
    \/ ToolCall
    \/ ForcedCall
    \/ ForcedCallRaises

Spec == Init /\ [][Next]_vars

AgendaInit == AgentAbsent /\ CommandInit /\ ActivityInit /\ CacheInit /\ SurfaceInit /\ WindowInit

AgendaNext ==
    \/ \E p \in Procs : AgendaAdd(p)
    \/ \E p \in Procs : AgendaAddUsage(p)
    \/ \E p \in Procs : AgendaView(p)
    \/ \E p \in Procs : FinalizeStart(p)
    \/ \E p \in Procs : FinalizeRead(p)
    \/ \E p \in Procs : FinalizeGenerate(p)
    \/ \E p \in Procs : FinalizeGenerateRaises(p)
    \/ \E p \in Procs : FinalizeCreateDoc(p)
    \/ \E p \in Procs : FinalizeMark(p)
    \/ \E p \in Procs : LpLetterStart(p)
    \/ \E p \in Procs : LpLetterGather(p)
    \/ \E p \in Procs : LpLetterCreateDoc(p)
    \/ \E p \in Procs : Release(p)
    \/ OAuthCallback

AgendaSpec == AgendaInit /\ [][AgendaNext]_vars

\* Intake of agenda items through every interface, next to finalize commands:
\* one worker runs the finalize interactions, the other the single-step
\* add / view operations.  The users are already connected to Google.
FINALIZER == "w1"
INTAKE == "w2"

IntakeInit ==
    /\ AgentAbsent
    /\ ActivityInit
    /\ CacheInit
    /\ SurfaceInit
    /\ WindowInit
    /\ agenda_items = <<>>
    /\ google_tokens = Users
    /\ inter = [p \in Procs |-> Idle]
    /\ finalized_upto = 0

IntakeNext ==
    \/ AgendaAdd(INTAKE)
    \/ AgendaAddUsage(INTAKE)
    \/ AgendaView(INTAKE)
    \/ ToolAddToAgenda(INTAKE)
    \/ ToolViewAgenda(INTAKE)
    \/ AgendaModalSubmit(INTAKE)
    \/ Release(INTAKE)
    \/ FinalizeStart(FINALIZER)
    \/ FinalizeRead(FINALIZER)
    \/ FinalizeGenerate(FINALIZER)
    \/ FinalizeGenerateRaises(FINALIZER)
    \/ FinalizeCreateDoc(FINALIZER)
    \/ FinalizeMark(FINALIZER)
    \/ Release(FINALIZER)

IntakeSpec == IntakeInit /\ [][IntakeNext]_vars

\* Message events and the channel commands, on every worker.
ActivityOnlyInit == AgentAbsent /\ CommandInit /\ ActivityInit /\ CacheInit /\ SurfaceInit /\ WindowInit

ActivityNext ==
    \/ Tick
    \/ \E p \in Procs : MessageEvent(p)
    \/ \E p \in Procs : SummarizeStart(p)
    \/ \E p \in Procs : SummarizeModel(p)
    \/ \E p \in Procs : CatchupStart(p)
    \/ \E p \in Procs : CatchupModel(p)
    \/ \E p \in Procs : ActionsStart(p)
    \/ \E p \in Procs : ActionsModel(p)
    \/ \E p \in Procs : Release(p)

ActivitySpec == ActivityOnlyInit /\ [][ActivityNext]_vars

\* The /pillar dispatcher with every command behind it, on one worker; the
\* users are already connected to Google.
ROUTER == "w1"

RouteInit ==
    /\ AgentAbsent
    /\ ActivityInit
    /\ CacheInit
    /\ SurfaceInit
    /\ WindowInit
    /\ agenda_items = <<>>
    /\ google_tokens = Users
    /\ inter = [p \in Procs |-> Idle]
    /\ finalized_upto = 0

RouteNext ==
    \/ ReceiveCommand(ROUTER)
    \/ handle_pillar_command(ROUTER)
    \/ SummarizeModel(ROUTER)
    \/ CatchupModel(ROUTER)
    \/ ActionsModel(ROUTER)
    \/ PortfolioModel(ROUTER)
    \/ FinalizeRead(ROUTER)
    \/ FinalizeGenerate(ROUTER)
    \/ FinalizeGenerateRaises(ROUTER)
    \/ FinalizeCreateDoc(ROUTER)
    \/ FinalizeMark(ROUTER)
    \/ LpLetterGather(ROUTER)
    \/ LpLetterCreateDoc(ROUTER)
    \/ Release(ROUTER)

RouteSpec == RouteInit /\ [][RouteNext]_vars

\* One mention at a time, with the agenda tool and every way the run ends.
RESPONDER == "w1"

HandlerInit ==
    AgentAbsent /\ CommandInit /\ ActivityInit /\ CacheInit /\ SurfaceInit /\ WindowInit

HandlerNext ==
    \/ MentionStart(RESPONDER)
    \/ MentionAddToAgenda(RESPONDER)
    \/ MentionGetChannelHistory(RESPONDER)
    \/ MentionReadFileByName(RESPONDER)
    \/ MentionEnd(RESPONDER)
    \/ MentionRelease(RESPONDER)

HandlerSpec == HandlerInit /\ [][HandlerNext]_vars

\* The OAuth callback endpoint alone.
OAuthInit ==
    AgentAbsent /\ CommandInit /\ ActivityInit /\ CacheInit /\ SurfaceInit /\ WindowInit

OAuthNext == OAuthCallbackRequest

OAuthSpec == OAuthInit /\ [][OAuthNext]_vars

\* The two window computations, each on every input.
WindowOnlyInit ==
    AgentAbsent /\ CommandInit /\ ActivityInit /\ CacheInit /\ SurfaceInit /\ WindowInputs

WindowNext ==
    \/ CatchupWindow
    \/ HistoryWindow

WindowSpec == WindowOnlyInit /\ [][WindowNext]_vars

\* Concurrent mentions using the file tools.
MentionInit == AgentAbsent /\ CommandInit /\ ActivityInit /\ CacheInit /\ SurfaceInit /\ WindowInit

MentionNext ==
    \/ \E p \in Procs : MentionStart(p)
    \/ \E p \in Procs : MentionGetChannelHistory(p)
    \/ \E p \in Procs : MentionReadFileByName(p)
    \/ \E p \in Procs : MentionRelease(p)
    \/ \E p \in Procs : MentionEnd(p)

MentionSpec == MentionInit /\ [][MentionNext]_vars

(***************************************************************************)
(* Properties of AgentService.run                                          *)
(***************************************************************************)
Terminated == pc \in {"returned", "raised"}
ToolEnabledRequests == {i \in 1..Len(requests) : requests[i].tools}
ForcedRequests == {i \in 1..Len(requests) : ~requests[i].tools}
Last(s) == s[Len(s)]

\* No two consecutive turns carry the same role.
Alternates(msgs) == \A i \in 1..(Len(msgs) - 1) : msgs[i].role # msgs[i + 1].role

\* The tool_use the inner loop is at.
CurrentToolUse == ToolUses(response)[ti]

\* The step taken is a failing on_status callback for the current tool_use.
StatusFailedNow ==
    /\ on_status
    /\ pc' = "raised"
    /\ events' = Append(events, Event("on_status", CurrentToolUse, TRUE, 0))

\* The current iteration ended with a Tool Result and the loop went on: to the
\* next tool_use of the step, or (after the last one) to the next model call
\* with the two turns of the step appended.
LoopWentOn ==
    /\ tool_results' = Append(tool_results, Last(tool_results'))
    /\ IF ti < Len(ToolUses(response))
       THEN /\ pc' = "tool_loop"
            /\ ti' = ti + 1
            /\ messages' = messages
       ELSE /\ pc' \in {"model_call", "forced_call"}
            /\ Len(messages') = Len(messages) + 2
            /\ Last(messages') = Turn("user", tool_results')

C1_CallBound ==
    /\ Cardinality(ToolEnabledRequests) <= max_steps
    /\ Cardinality(ForcedRequests) <= 1
    /\ Len(requests) <= max_steps + 1
    /\ \A i \in ForcedRequests : i = Len(requests) /\ Terminated
\* What is left to do, counted in steps: every step of a run lowers it, and a
\* run that has not ended can always take a step.
Variant ==
    IF Terminated THEN 0
    ELSE 1 + (max_steps - step) * (MaxBlocks + 2) - (IF pc = "tool_loop" THEN ti ELSE 0)
C1_Progress == Variant >= 0 /\ (~Terminated => ENABLED Next)
\* C1: for every step budget N >= 1 a run makes at most N tool-enabled model
\* calls and at most one forced-answer call (never more than N + 1 requests),
\* the forced-answer call being the last; and every run terminates: each step
\* lowers a non-negative measure and a run that has not ended is never stuck.
C1_TerminatesWithinBudget ==
    /\ []C1_CallBound
    /\ []C1_Progress
    /\ [][Variant' < Variant]_vars
C1_Witness ==
    /\ pc = "returned"
    /\ max_steps = MaxSteps
    /\ Cardinality(ToolEnabledRequests) = max_steps
    /\ Cardinality(ForcedRequests) = 1

\* C2: the transcript passed to the model in every request, and the transcript
\* held by the run, alternates user and assistant turns: no two consecutive
\* turns carry the same role.
C2_TranscriptAlternates ==
    /\ Alternates(messages)
    /\ \A i \in 1..Len(requests) : Alternates(requests[i].messages)

C3_FirstResponseStep ==
    (/\ requests = <<>>
     /\ Len(requests') = 1
     /\ pc' # "raised"
     /\ ToolUses(response') = <<>>)
    => /\ pc' = "returned"
       /\ events' = <<>>
       /\ messages' = messages
       /\ result' = IF response' = <<>> THEN NO_TEXT_FALLBACK ELSE response'[1].text
\* C3: when the first response holds no tool_use block the run returns at once
\* with that response's (first) text unchanged, or the fallback text when the
\* response has no text; one model call was made, no executor and no status
\* callback was invoked, and nothing happens after a run has ended.
C3_PlainAnswerReturned ==
    /\ [][C3_FirstResponseStep]_vars
    /\ [][~Terminated]_vars
C3_Witness ==
    /\ pc = "returned"
    /\ Len(requests) = 1
    /\ Len(response) = 2
    /\ result = response[1].text
    /\ result # response[2].text
    /\ events = <<>>

C4_UnregisteredStep ==
    (pc = "tool_loop" /\ CurrentToolUse.name \notin tool_executors)
    => \/ StatusFailedNow
       \/ /\ pc' # "raised"
          /\ Len(tool_results') = Len(tool_results) + 1
          /\ Last(tool_results').type = "tool_result"
          /\ Last(tool_results').id = CurrentToolUse.id
          /\ Last(tool_results').text =
                Lit("Tool '") \o Lit(CurrentToolUse.name) \o Lit("' is not available.")
          /\ \A i \in 1..Len(events') : i > Len(events) => events'[i].op # "executor"
          /\ LoopWentOn
\* C4: a tool_use naming a tool with no registered executor does not make run
\* raise: its Tool Result is the text "Tool '<name>' is not available.", no
\* executor is invoked for it, the remaining tool calls of the step are
\* processed and the loop proceeds to the next model call.  (The only way the
\* iteration raises is a failing status callback.)
C4_UnregisteredToolDoesNotRaise == [][C4_UnregisteredStep]_vars
C4_Witness ==
    /\ pc = "returned"
    /\ Len(requests) >= 2
    /\ \E i \in 1..Len(messages) :
        /\ messages[i].role = "assistant"
        /\ Len(ToolUses(messages[i].content)) = 2
        /\ ToolUses(messages[i].content)[1].name \notin tool_executors
        /\ ToolUses(messages[i].content)[2].name \in tool_executors
        /\ messages[i + 1].content[1].text = NotAvailable("delete_channel")

ExecutorRaisedNow ==
    /\ pc = "tool_loop"
    /\ Len(events') > Len(events)
    /\ Last(events').op = "executor"
    /\ Last(events').raised
C5_ExecutorRaiseStep ==
    ExecutorRaisedNow
    => /\ pc' # "raised"
       /\ Len(tool_results') = Len(tool_results) + 1
       /\ Last(events').id = CurrentToolUse.id
       /\ Last(tool_results').id = CurrentToolUse.id
       /\ StartsWith(Last(tool_results').text, ERROR_MARKER)
       /\ Last(tool_results').text =
            Slice(ERROR_MARKER \o ExcMessage(CurrentToolUse.id, Last(events').n),
                  MAX_RESULT_CHARS)
       /\ (TLen(ERROR_MARKER) + Last(events').n <= MAX_RESULT_CHARS
            => Last(tool_results').text =
                 ERROR_MARKER \o ExcMessage(CurrentToolUse.id, Last(events').n))
       /\ LoopWentOn
\* C5: an exception raised by a registered executor does not leave run: the
\* Tool Result of that call is "Error: " followed by the exception's message
\* (cut, like every Tool Result, at the maximum length), and the loop goes on
\* with the next tool call or the next model call.
C5_ExecutorErrorInBand == [][C5_ExecutorRaiseStep]_vars
C5_Witness ==
    /\ pc = "returned"
    /\ Len(requests) >= 2
    /\ \E e \in 1..Len(events) : events[e].op = "executor" /\ events[e].raised
    /\ \E i \in 1..Len(messages) :
        /\ messages[i].role = "user"
        /\ i > 1
        /\ \E k \in 1..Len(messages[i].content) :
            messages[i].content[k].text = ERROR_MARKER \o ExcMessage(messages[i].content[k].id, 9)

ToolResultsIn(msgs) ==
    {b \in UNION {Range(msgs[i].content) : i \in 1..Len(msgs)} : b.type = "tool_result"}
AllToolResults ==
    ToolResultsIn(messages) \cup Range(tool_results)
        \cup UNION {ToolResultsIn(requests[i].messages) : i \in 1..Len(requests)}
\* C6: every Tool Result, in the transcript, in any request and in the step
\* under way, has a text of at most 50000 characters, whatever the length of
\* the executor's output or of the synthesized error text.
C6_ToolResultBounded == \A b \in AllToolResults : TLen(b.text) <= MAX_RESULT_CHARS
C6_Witness ==
    /\ pc = "returned"
    /\ \E b \in ToolResultsIn(messages) :
        /\ TLen(b.text) = MAX_RESULT_CHARS
        /\ \E e \in 1..Len(events) :
            /\ events[e].op = "executor" /\ events[e].id = b.id
            /\ ~events[e].raised /\ events[e].n = MAX_RESULT_CHARS + 1
    /\ \E b \in ToolResultsIn(messages) :
        /\ TLen(b.text) = MAX_RESULT_CHARS
        /\ \E e \in 1..Len(events) :
            /\ events[e].op = "executor" /\ events[e].id = b.id
            /\ events[e].raised /\ TLen(ERROR_MARKER) + events[e].n > MAX_RESULT_CHARS

BudgetExhausted == step = max_steps
C7_State ==
    BudgetExhausted =>
        /\ pc \in {"forced_call", "returned", "raised"}
        /\ ToolEnabledRequests = 1..max_steps
        /\ \A i \in 1..max_steps : Len(ToolUses(messages[2 * i].content)) >= 1
        /\ pc = "forced_call" => Len(requests) = max_steps
        /\ pc # "forced_call" => Len(requests) = max_steps + 1 /\ ~Last(requests).tools
        /\ pc # "forced_call" =>
             Last(Last(requests).messages) = Turn("user", <<TextBlock(FINAL_PROMPT)>>)
        /\ pc = "returned" =>
             result = IF response = <<>> THEN FORCED_FALLBACK ELSE response[1].text
\* C7: once every one of the max_steps tool-enabled responses has asked for a
\* tool, exactly one more request is issued, without tools and after the
\* max_steps tool-enabled ones; its first text block, or the fixed fallback
\* text when it has none, is returned; no executor or callback runs and no
\* further step of the loop is taken after the budget is exhausted.
C7_ForcedAnswer ==
    /\ []C7_State
    /\ [][BudgetExhausted => events' = events /\ step' = step]_vars
C7_Witness ==
    /\ pc = "returned"
    /\ max_steps = MaxSteps
    /\ BudgetExhausted
    /\ result = FORCED_FALLBACK
    /\ Len(events) >= max_steps

AssistantTurns(msgs) == {i \in 1..Len(msgs) : msgs[i].role = "assistant"}
ResultsMatch(uses, results) ==
    /\ Len(results) = Len(uses)
    /\ \A k \in 1..Len(results) :
        /\ results[k].type = "tool_result"
        /\ results[k].id = uses[k].id
        /\ Cardinality({j \in 1..Len(uses) : uses[j].id = results[k].id}) = 1
StepMatches(msgs, i) ==
    /\ i + 1 <= Len(msgs)
    /\ msgs[i + 1].role = "user"
    /\ ResultsMatch(ToolUses(msgs[i].content), msgs[i + 1].content)
    /\ \A j \in AssistantTurns(msgs) \ {i} :
        \A k \in 1..Len(msgs[i + 1].content), u \in 1..Len(ToolUses(msgs[j].content)) :
            ToolUses(msgs[j].content)[u].id # msgs[i + 1].content[k].id
\* C8: in every step the batched result turn answers the assistant response of
\* that step call by call: as many Tool Results as Tool Calls, the k-th result
\* carrying the k-th call's identifier, that identifier naming exactly one call
\* of the response and no call of any other step.
C8_ResultsMatchCalls ==
    /\ \A i \in AssistantTurns(messages) : StepMatches(messages, i)
    /\ pc = "tool_loop" =>
        /\ Len(tool_results) = ti - 1
        /\ ResultsMatch(SubSeq(ToolUses(response), 1, ti - 1), tool_results)
C8_Witness ==
    /\ pc = "returned"
    /\ Cardinality(AssistantTurns(messages)) = 2
    /\ \A i \in AssistantTurns(messages) : Len(ToolUses(messages[i].content)) = 1

IsPrefix(s, t) == Len(s) <= Len(t) /\ SubSeq(t, 1, Len(s)) = s
\* Identifiers of the events made by run so far, in order.
EventIds == [e \in 1..Len(events) |-> events[e].id]
NonDecreasing(ids) == \A i \in 1..(Len(ids) - 1) : ids[i] <= ids[i + 1]
ResultIdsIn(msgs) == {b.id : b \in ToolResultsIn(msgs)}
\* The identifiers the model emitted are numbered in emission order.
EmittedInOrder(content) ==
    \A k \in 1..(Len(ToolUses(content)) - 1) :
        ToolUses(content)[k].id < ToolUses(content)[k + 1].id
C23_State ==
    /\ NonDecreasing(EventIds)
    /\ \A i \in AssistantTurns(messages) :
        /\ EmittedInOrder(messages[i].content)
        /\ i + 1 <= Len(messages)
        /\ [k \in 1..Len(messages[i + 1].content) |-> messages[i + 1].content[k].id]
             = [k \in 1..Len(ToolUses(messages[i].content)) |->
                    ToolUses(messages[i].content)[k].id]
    /\ pc = "tool_loop" =>
        /\ EmittedInOrder(response)
        /\ \A e \in 1..Len(events) : events[e].id < CurrentToolUse.id
        /\ \A k \in 1..Len(tool_results) : tool_results[k].id < CurrentToolUse.id
C23_Step ==
    /\ Len(events') <= Len(events) + 2
    /\ Cardinality({e \in 1..Len(events') : e > Len(events) /\ events'[e].op = "executor"}) <= 1
    /\ Len(requests') > Len(requests) =>
        /\ pc \in {"model_call", "forced_call"}
        /\ ResultIdsIn(Last(requests').messages) = 1..issued
        /\ \A e \in 1..Len(events) : events[e].id \in 1..issued
\* C23: within one step the tool calls are executed one at a time, in the order
\* the model emitted them; the batched result turn lists the results in that
\* order; and a model request is issued only when every tool call emitted so
\* far has its result in the transcript passed with the request.
C23_SequentialInOrder == []C23_State /\ [][C23_Step]_vars
C23_Witness ==
    /\ pc = "returned"
    /\ Len(requests) = 2
    /\ Len(ToolUses(messages[2].content)) = 2
    /\ \A k \in 1..2 : ToolUses(messages[2].content)[k].name \in tool_executors
    /\ Len(SelectSeq(events, LAMBDA e : e.op = "executor")) = 2

StatusEvents == SelectSeq(events, LAMBDA e : e.op = "on_status")
\* Tool calls that have produced their result so far.
Completed ==
    Cardinality(ResultIdsIn(messages) \cup {tool_results[k].id : k \in 1..Len(tool_results)})
C24_State ==
    /\ ~on_status => StatusEvents = <<>>
    /\ on_status =>
        /\ \A k \in 1..Len(StatusEvents) : StatusEvents[k].id = k
        /\ Len(StatusEvents) \in {Completed, Completed + 1}
        /\ Len(StatusEvents) = Completed + 1 =>
              pc = "raised" /\ Last(events).op = "on_status" /\ Last(events).raised
        /\ \A e \in 1..Len(events) :
              events[e].op = "executor"
              => /\ e > 1
                 /\ events[e - 1].op = "on_status"
                 /\ events[e - 1].id = events[e].id
        /\ \A id \in ResultIdsIn(messages) \cup {tool_results[k].id : k \in 1..Len(tool_results)} :
              \E k \in 1..Len(StatusEvents) : StatusEvents[k].id = id
C24_Step ==
    Len(requests') > Len(requests) => events' = events
\* C24: with a progress callback supplied, it is invoked exactly once for each
\* tool-call block the loop reaches, in the order of the tool calls, before
\* that call's executor and also for a name with no registered executor; with
\* none supplied it is never invoked; and no model request, in particular one
\* whose response has no tool-call block and the forced-answer request, comes
\* with an invocation.
C24_StatusOncePerToolCall == []C24_State /\ [][C24_Step]_vars
C24_Witness ==
    /\ pc = "returned"
    /\ on_status
    /\ Len(StatusEvents) = 2
    /\ StatusEvents[1].name \notin tool_executors
    /\ StatusEvents[2].name \in tool_executors
    /\ ~Last(requests).tools

FinalPromptTurn == Turn("user", <<TextBlock(FINAL_PROMPT)>>)
C25_Step ==
    /\ IsPrefix(messages, messages')
    /\ step' = step + 1 =>
          messages' = messages \o <<Turn("assistant", response), Turn("user", tool_results')>>
    /\ (pc \in {"model_call", "tool_loop"} /\ step' = step) => messages' = messages
    /\ pc = "forced_call" => messages' = Append(messages, FinalPromptTurn)
\* C25: the transcript of a run is append-only: every step leaves the earlier
\* turns unchanged and in place; a tool-using step of the loop appends exactly
\* two turns, the assistant response and then the batched tool results; a step
\* of the loop that ends the run (a response without tool calls, or a raise)
\* appends nothing; the forced-answer request after the loop appends the one
\* final-prompt turn.
C25_TranscriptAppendOnly == [][C25_Step]_vars
C25_Witness ==
    /\ pc = "returned"
    /\ max_steps = 2
    /\ step = 1
    /\ Len(messages) = 3
    /\ Len(requests) = 2
    /\ Last(requests).messages = messages

(***************************************************************************)
(* Properties of the agenda commands                                       *)
(***************************************************************************)
Ids(items) == {items[i].id : i \in DOMAIN items}
PendingIds(rows) == {rows[i].id : i \in {k \in DOMAIN rows : ~rows[k].included_in_doc}}
IncludedIds(rows) == {rows[i].id : i \in {k \in DOMAIN rows : rows[k].included_in_doc}}
Contents(groups) == UNION {Range(groups[g].contents) : g \in DOMAIN groups}

\* The step of worker p is the finalize that reads the pending list.
ReadsBy(p) == inter[p].pc = "fin_read" /\ inter'[p].pc # "fin_read"
\* The step of worker p is the finalize that marks, after its document was created.
MarksBy(p) == inter[p].pc = "fin_mark" /\ inter'[p].pc = "done"
\* The step of worker p is an agenda view.
ViewsBy(p) == inter[p].pc = "idle" /\ inter'[p].cmd = "agenda view"

C9_ReadStep ==
    \A p \in Procs : ReadsBy(p) =>
        /\ Ids(inter'[p].items) = PendingIds(agenda_items)
        /\ Len(inter'[p].items) = Cardinality(PendingIds(agenda_items))
C9_MarkStep ==
    \A p \in Procs : MarksBy(p) =>
        /\ Len(agenda_items') = Len(agenda_items)
        /\ IncludedIds(agenda_items') = IncludedIds(agenda_items) \cup Ids(inter[p].items)
        /\ \A i \in DOMAIN agenda_items :
             [agenda_items'[i] EXCEPT !.included_in_doc = FALSE]
                = [agenda_items[i] EXCEPT !.included_in_doc = FALSE]
        /\ inter'[p].out[Len(inter'[p].out)] = GoogleDocCreated
C9_ViewStep ==
    \A p \in Procs : ViewsBy(p) =>
        /\ \A id \in Ids(inter'[p].items) : id > finalized_upto
        /\ Contents(inter'[p].out[1].groups)
             = {agenda_items[i].content : i \in {k \in DOMAIN agenda_items :
                                                  agenda_items[k].id \in Ids(inter'[p].items)}}

\* C9: a finalize whose document is created marks exactly the items it read,
\* which are all the items pending (added and not yet included) when it read
\* the table, and changes nothing else of any row; an agenda view made after
\* that returns only items added after the finalize read the table.
C9_FinalizeMarksExactlyPending ==
    [][C9_ReadStep /\ C9_MarkStep /\ C9_ViewStep]_vars

\* A view made after a completed finalize shows the one item added since.
C9_Witness ==
    \E p \in Procs :
        /\ inter[p].cmd = "agenda view" /\ inter[p].pc = "done"
        /\ finalized_upto = 1
        /\ IncludedIds(agenda_items) = {1}
        /\ Ids(inter[p].items) = {2}
        /\ Contents(inter[p].out[1].groups) = {2}

\* The step of worker p starts a command that needs the document service, for
\* a user without a stored credential.
UnauthenticatedStart(p) ==
    /\ inter[p].pc = "idle"
    /\ inter'[p].cmd \in {"agenda finalize", "lp-letter"}
    /\ inter'[p].user \notin google_tokens
C10_PromptStep ==
    \A p \in Procs : UnauthenticatedStart(p) =>
        /\ inter'[p].pc = "done"
        /\ Len(inter'[p].out) = 2
        /\ inter'[p].out[2].kind = "google_auth_prompt"
        /\ inter'[p].out[2].url = get_auth_url(inter'[p].user, REDIRECT_URI)
        /\ inter'[p].out[2].url # NoUrl
        /\ inter'[p].doc_attempts = 0
        /\ agenda_items' = agenda_items
\* An interaction that answered with the prompt has ended there.
C10_Stopped ==
    \A p \in Procs :
        (inter[p].out # <<>> /\ inter[p].out[Len(inter[p].out)].kind = "google_auth_prompt")
            => inter[p].pc = "done" /\ inter[p].doc_attempts = 0

\* C10: agenda finalize and lp-letter, asked by a user with no stored
\* credential, answer with the authorization prompt carrying the link
\* generated for that user and end there: no document creation is attempted
\* and no agenda row changes.
C10_UnauthenticatedStops ==
    [][C10_PromptStep]_vars /\ []C10_Stopped

\* Both commands have been refused while an item was pending.
C10_Witness ==
    /\ PendingIds(agenda_items) # {}
    /\ inter["w1"].cmd = "agenda finalize" /\ inter["w1"].user \notin google_tokens
    /\ inter["w1"].pc = "done" /\ inter["w1"].out[2].kind = "google_auth_prompt"
    /\ inter["w2"].cmd = "lp-letter" /\ inter["w2"].user \notin google_tokens
    /\ inter["w2"].pc = "done" /\ inter["w2"].out[2].kind = "google_auth_prompt"
    /\ inter["w2"].out[2].url.state = inter["w2"].user

\* The items of the document worker p's finalize has had created.
DocumentItems(p) ==
    IF /\ inter[p].cmd = "agenda finalize"
       /\ \/ inter[p].pc = "fin_mark"
          \/ inter[p].pc = "done" /\ Last(inter[p].out) = GoogleDocCreated
    THEN Ids(inter[p].items) ELSE {}
\* C28: however finalize commands and adds interleave, no agenda item is
\* folded into more than one created agenda document: two finalizes running
\* at the same time never both include the same pending item.
C28_ItemInOneDocument ==
    \A p, q \in Procs : p # q => DocumentItems(p) \cap DocumentItems(q) = {}

\* The step of worker p is a document creation that fails.
CreateFailsBy(p) == inter[p].pc = "fin_create" /\ inter'[p].pc = "done"
\* The step of worker p is a finalize finding no pending item.
ReadsNothingBy(p) == inter[p].pc = "fin_read" /\ inter'[p].pc = "done"
C29_Step ==
    /\ IncludedIds(agenda_items') # IncludedIds(agenda_items) =>
        \E p \in Procs :
            /\ MarksBy(p)
            /\ inter[p].cmd = "agenda finalize"
            /\ inter[p].doc_attempts = 1
            /\ IncludedIds(agenda_items') \ IncludedIds(agenda_items) \subseteq Ids(inter[p].items)
            /\ \A i \in DOMAIN agenda_items :
                  (agenda_items[i].id > inter[p].seen /\ ~agenda_items[i].included_in_doc)
                  => ~agenda_items'[i].included_in_doc
    /\ \A p \in Procs : (CreateFailsBy(p) \/ ReadsNothingBy(p)) =>
          /\ agenda_items' = agenda_items
          /\ Last(inter'[p].out).kind = "error"
C29_State ==
    \A p \in Procs :
        /\ inter[p].pc = "fin_mark" =>
              inter[p].items # <<>> /\ inter[p].doc_attempts = 1
        /\ (inter[p].out # <<>> /\ Last(inter[p].out).kind = "error") => inter[p].pc = "done"
\* C29: an inclusion flag changes only in the marking step of a finalize whose
\* document was created, and only for items of the pending list that document
\* was generated from; a failed document creation and a finalize finding no
\* pending item end with an error and change no flag; an item added between a
\* finalize's read and its marking step stays pending.
C29_MarkedOnlyByCreatedDocument == [][C29_Step]_vars /\ []C29_State
\* One finalize has marked item 1, read when it was the only item; the other
\* finalize read items 1 and 2 as pending before that, so item 2 was added
\* between the first finalize's read and its marking, and it is still pending.
C29_Witness ==
    \E p, q \in Procs :
        /\ inter[p].cmd = "agenda finalize" /\ inter[p].pc = "done"
        /\ Last(inter[p].out) = GoogleDocCreated
        /\ inter[p].seen = 1
        /\ inter[q].cmd = "agenda finalize" /\ inter[q].pc = "fin_generate"
        /\ Ids(inter[q].items) = {1, 2}
        /\ IncludedIds(agenda_items) = {1}
        /\ PendingIds(agenda_items) = {2}

(***************************************************************************)
(* Properties of the agenda intake (commands, agent tools, modal)          *)
(***************************************************************************)
SameButFlag(r1, r2) ==
    [r1 EXCEPT !.included_in_doc = FALSE] = [r2 EXCEPT !.included_in_doc = FALSE]

\* C11: whatever operation takes a step, no row of agenda_items disappears,
\* a row's inclusion flag never goes from true back to false, and no other
\* column of an existing row changes.
C11_FlagMonotonic ==
    [][/\ Len(agenda_items') >= Len(agenda_items)
       /\ \A i \in DOMAIN agenda_items :
            /\ SameButFlag(agenda_items'[i], agenda_items[i])
            /\ agenda_items[i].included_in_doc => agenda_items'[i].included_in_doc]_vars

\* A row folded into a document, next to a row stored by the modal, seen by
\* the view_agenda tool.
C11_Witness ==
    /\ \E i \in DOMAIN agenda_items : agenda_items[i].included_in_doc
    /\ \E i \in DOMAIN agenda_items :
        ~agenda_items[i].included_in_doc /\ agenda_items[i].channel_id = agenda_items[i].user_id
    /\ inter[INTAKE].cmd = "view_agenda"

\* The step of worker p adds through the slash command / through the tool.
CommandAddBy(p) ==
    inter[p].pc = "idle" /\ inter'[p].cmd = "agenda add" /\ inter'[p].arg # ""
ToolAddBy(p) ==
    /\ inter[p].pc = "idle" /\ inter'[p].cmd = "add_to_agenda"
    /\ inter'[p].out[1].text # "No content provided for the agenda item."
StoredRow == agenda_items'[Len(agenda_items')]
DeclaredCommandCategories ==
    {"investment", "decision", "pipeline", "deal", "portfolio", "company", "other"}
DeclaredToolCategories == {"Investment Decisions", "Pipeline", "Portfolio Updates", "Other"}

\* C12: an add with a category outside the declared set stores the item under
\* the default category ("Other Business" for the command, "Other" for the
\* tool); a declared category is stored as mapped (command) or as given (tool).
C12_CategoryCoerced ==
    [][\A p \in Procs :
        /\ CommandAddBy(p) =>
            /\ Len(agenda_items') = Len(agenda_items) + 1
            /\ inter'[p].arg \notin DeclaredCommandCategories
                    => StoredRow.category = "Other Business"
            /\ inter'[p].arg = "pipeline" => StoredRow.category = "Pipeline Review"
        /\ ToolAddBy(p) =>
            /\ Len(agenda_items') = Len(agenda_items) + 1
            /\ inter'[p].arg \notin DeclaredToolCategories => StoredRow.category = "Other"
            /\ inter'[p].arg \in DeclaredToolCategories
                    => StoredRow.category = inter'[p].arg]_vars

\* The tool has stored an undeclared category as "Other", after the command
\* stored one as "Other Business".
C12_Witness ==
    /\ Len(agenda_items) = 2
    /\ agenda_items[1].category = "Other Business" /\ agenda_items[1].channel_id = CHANNEL
    /\ inter[INTAKE].cmd = "add_to_agenda" /\ inter[INTAKE].arg = "Deals"
    /\ agenda_items[2].category = "Other"

Entries(groups) ==
    UNION {{<<groups[g].category, groups[g].contents[k]>> : k \in DOMAIN groups[g].contents}
            : g \in DOMAIN groups}
PendingEntries(rows) ==
    {<<rows[i].category, rows[i].content>> : i \in {k \in DOMAIN rows : ~rows[k].included_in_doc}}
RECURSIVE NumEntries(_)
NumEntries(groups) ==
    IF groups = <<>> THEN 0 ELSE Len(Head(groups).contents) + NumEntries(Tail(groups))

\* C13: the output of an agenda view lists exactly the pending items, each
\* once and under its stored category, every category heading once.
C13_ViewShowsPending ==
    [][\A p \in Procs : ViewsBy(p) =>
        LET groups == inter'[p].out[1].groups
        IN /\ Entries(groups) = PendingEntries(agenda_items)
           /\ NumEntries(groups) = Cardinality(PendingIds(agenda_items))
           /\ \A g, h \in DOMAIN groups :
                groups[g].category = groups[h].category => g = h]_vars

\* agenda add pipeline TEXT, then agenda view: one group, "Pipeline Review",
\* holding that item.
C13_Witness ==
    /\ Len(agenda_items) = 1 /\ agenda_items[1].category = "Pipeline Review"
    /\ inter[INTAKE].cmd = "agenda view"
    /\ inter[INTAKE].out[1].groups =
            <<[category |-> "Pipeline Review", contents |-> <<agenda_items[1].content>>]>>

(***************************************************************************)
(* Properties of a mention answered by AgentService.run                    *)
(***************************************************************************)
ExecutorEvents == {e \in 1..Len(events) : events[e].op = "executor"}
\* The run's only executor call was get_channel_history finding no message.
OnlyEmptyHistory ==
    /\ Cardinality(ExecutorEvents) = 1
    /\ \A e \in ExecutorEvents : events[e].name = "get_channel_history"
    /\ \E b \in ToolResultsIn(messages) : b.text = NO_MESSAGES

\* C14: when the channel history asked for by the run holds no message, the
\* text the run returns for delivery is the fixed "No messages found in the
\* specified time period." text, not a text written by the model.
C14_NoMessagesAnswerFixed ==
    (pc = "returned" /\ OnlyEmptyHistory) => result = NO_MESSAGES

\* C16: a run executes at most max_steps tool calls.
C16_ToolCallsBounded == Cardinality(ExecutorEvents) <= max_steps

ResultsFor(id) == {b \in ToolResultsIn(messages) \cup Range(tool_results) : b.id = id}
C18_State ==
    /\ \A e, f \in ExecutorEvents : events[e].id = events[f].id => e = f
    /\ \A e \in ExecutorEvents : events[e].raised =>
            /\ Cardinality(ResultsFor(events[e].id)) = 1
            /\ \A b \in ResultsFor(events[e].id) : StartsWith(b.text, ERROR_MARKER)
    /\ \A i, j \in 1..Len(requests) : requests[i] = requests[j] => i = j
    /\ Cardinality(ToolEnabledRequests) <= step + 1
\* Nothing follows a failed request or callback in the same run.
C18_Step == pc = "raised" => UNCHANGED <<requests, events, messages>>

\* C18: in a run every tool_use block causes at most one executor call, an
\* executor call that raised is answered by exactly one "Error: ..." Tool
\* Result and is not made again, no request is issued twice, and a run ended
\* by a failure issues nothing more.
C18_NothingRetried == []C18_State /\ [][C18_Step]_vars

\* A run that went on to its answer after one executor call raised.
C18_Witness ==
    /\ pc = "returned"
    /\ \E e \in ExecutorEvents :
        /\ events[e].raised
        /\ Cardinality(ResultsFor(events[e].id)) = 1
    /\ Len(requests) = Cardinality(ExecutorEvents) + 1
    /\ Cardinality(ExecutorEvents) = MaxToolUses

(***************************************************************************)
(* Properties of activity tracking and of the channel commands             *)
(***************************************************************************)
\* The step of worker p handles an ordinary message event of a user.
MessageBy(p) ==
    /\ inter[p].pc = "idle" /\ inter'[p].cmd = "message"
    /\ inter'[p].arg = "" /\ inter'[p].user # ""
\* The step of worker p completes a catch-up (the handler returns normally).
CatchupCompletedBy(p) ==
    inter[p].pc # "done" /\ inter'[p].cmd = "catchup" /\ inter'[p].pc = "done"

\* C15: every ordinary message event of a user, and every catch-up of a user
\* that completes, with or without new messages, sets the user's last-active
\* time to the current time.
C15_LastActiveUpserted ==
    [][\A p \in Procs :
        (MessageBy(p) \/ CatchupCompletedBy(p))
            => user_last_active'[inter'[p].user] = now]_vars

\* C17: no handler is left by an exception: a handler whose upstream call
\* failed has answered with an error message and returned.
C17_FailureSurfaced == \A p \in Procs : inter[p].pc # "raised"

(***************************************************************************)
(* Properties of the file cache                                            *)
(***************************************************************************)
\* C19: a file a run got from the cache lookup of read_file_by_name was put
\* in the cache by the get_channel_history calls of that same run; in
\* particular a run that has cached nothing gets nothing from the cache.
C19_CachePrivate ==
    \A p \in Procs : mention[p].from_cache => mention[p].found \in mention[p].cached

\* Two mentions under way in different channels, each served from its own cache.
C19_Witness ==
    /\ mention["w1"].channel = "C1" /\ mention["w1"].from_cache
    /\ mention["w1"].found = File("Deck.pdf", "C1")
    /\ mention["w2"].channel = "C2" /\ mention["w2"].from_cache
    /\ mention["w2"].found = File("Notes.txt", "C2")

(***************************************************************************)
(* Properties of the view_agenda tool                                      *)
(***************************************************************************)
ToolViewBy(p) == inter[p].pc = "idle" /\ inter'[p].cmd = "view_agenda"

\* C20: the output of the view_agenda tool names every pending item,
\* whichever interface stored it and under whatever category, and says the
\* agenda is empty only when no item is pending.
C20_ToolViewShowsAllPending ==
    [][\A p \in Procs : ToolViewBy(p) =>
        LET text == inter'[p].out[1]
        IN /\ Entries(text.groups) = PendingEntries(agenda_items)
           /\ (text.text = "The Monday agenda is empty. No items have been added yet."
                    => PendingIds(agenda_items) = {})]_vars

(***************************************************************************)
(* Properties of the history windows                                       *)
(***************************************************************************)
Elapsed == catchup_window.now - catchup_window.last_active[1]
\* C26: the lookback of /pillar catchup is 24 hours when no last-active time
\* is stored; otherwise it is the whole hours elapsed since that time, raised
\* to 1 and lowered to 168: never above 168 and never below 1, also for a
\* last-active time in the future.
C26_CatchupWindowClamped ==
    catchup_window.pc = "done" =>
        /\ catchup_window.hours \in 1..168
        /\ catchup_window.last_active = None => catchup_window.hours = 24
        /\ catchup_window.last_active # None =>
            /\ Elapsed < 3600 => catchup_window.hours = 1
            /\ Elapsed >= 168 * 3600 => catchup_window.hours = 168
            /\ (Elapsed >= 3600 /\ Elapsed < 168 * 3600) =>
                /\ catchup_window.hours * 3600 <= Elapsed
                /\ Elapsed < (catchup_window.hours + 1) * 3600
C26_Witness ==
    /\ catchup_window.pc = "done"
    /\ catchup_window.last_active # None
    /\ catchup_window.last_active[1] > catchup_window.now
    /\ catchup_window.hours = 1

\* C27: whatever hours value the model passes to get_channel_history (none,
\* zero, negative, above 168), the window requested from the chat gateway is
\* at most 168 hours, and it is 24 hours when no value is passed.
C27_ToolWindowCapped ==
    history_window.pc = "done" =>
        /\ history_window.window <= 168
        /\ history_window.input = None => history_window.window = 24
C27_Witness ==
    /\ history_window.pc = "done"
    /\ history_window.input = Some(1000)
    /\ history_window.window = 168

(***************************************************************************)
(* Properties of the OAuth callback                                        *)
(***************************************************************************)
Given(raw) == raw # None /\ raw # Some("")
C22_Step ==
    LET r == oauth_request'
        complete == Given(r.code) /\ Given(r.state)
    IN /\ google_tokens' # google_tokens =>
            /\ r.path = "/oauth/callback"
            /\ complete
            /\ r.exchanged
            /\ r.status = 200
            /\ google_tokens' = google_tokens \cup {r.state[1]}
       /\ r.status = 200 => complete /\ r.exchanged /\ r.state[1] \in google_tokens'
       /\ (r.path = "/oauth/callback" /\ ~complete) =>
            r.status = 400 /\ google_tokens' = google_tokens
       /\ (r.path = "/oauth/callback" /\ complete /\ ~r.exchanged) =>
            r.status = 500 /\ google_tokens' = google_tokens
\* C22: the OAuth callback saves a token pair only for the user id given as
\* the state value, and only when code and state are both present and the
\* exchange of the code succeeds; a request with a missing code or state is
\* answered 400 and one whose exchange fails 500, the token table unchanged.
C22_CallbackPersistsOnlyOnSuccess == [][C22_Step]_vars
C22_Witness ==
    /\ oauth_request.status = 500
    /\ oauth_request.state = Some("U1")
    /\ google_tokens = {"U2"}

(***************************************************************************)
(* Properties of the /pillar dispatcher                                    *)
(***************************************************************************)
KnownSubcommands ==
    {"summarize", "catchup", "actions", "agenda", "portfolio", "lp-letter", "help"}
\* The first word of a command text in lower case, "" for a text without words.
FirstWord(text) ==
    IF WordIndexes(text) = {} THEN "" ELSE lower(text[First(WordIndexes(text))])
\* The step of worker p routes the command it received.
RoutesBy(p) == inter[p].pc = "idle" /\ received[p] # NoCommand /\ inter'[p].pc # "idle"
AnsweredOnly(p, resp) ==
    /\ inter'[p].pc = "done"
    /\ inter'[p].out = <<resp>>
    /\ inter'[p].calls = <<>>
    /\ storeVars' = storeVars
    /\ user_last_active' = user_last_active
C21_Step ==
    \A p \in Procs : RoutesBy(p) =>
        LET word == FirstWord(received[p])
        IN /\ (word # "" /\ word \notin KnownSubcommands) =>
                AnsweredOnly(p, Error("Unknown command: " \o word
                                      \o ". Use /pillar help for available commands."))
           /\ word = "" => AnsweredOnly(p, Help)
C21_State ==
    \A p \in Procs :
        (received[p] # NoCommand /\ FirstWord(received[p]) \notin KnownSubcommands) =>
            /\ inter[p].pc \in {"idle", "done"}
            /\ inter[p].calls = <<>>
\* C21: a /pillar command whose first word (case ignored) is none of
\* summarize, catchup, actions, agenda, portfolio, lp-letter, help is answered
\* with the unknown-command error naming that word and nothing else happens:
\* no table changes and no chat-history or model request is made; a text
\* without any word is answered with the help message.
C21_UnknownCommandRejected == [][C21_Step]_vars /\ []C21_State
C21_Witness ==
    /\ received[ROUTER] = <<"Frobnicate", WS, "now">>
    /\ inter[ROUTER].pc = "done"
    /\ inter[ROUTER].out[1].kind = "error"
    /\ agenda_items # <<>>

(***************************************************************************)
(* Properties of the mention handler                                       *)
(***************************************************************************)
\* The step of worker p is the end of its agent run.
EndsBy(p) == mention[p].pc = "running" /\ mention'[p].pc = "done"
C30_Step ==
    /\ \A p \in Procs : (EndsBy(p) /\ mention'[p].run = "raised") =>
          /\ mention'[p].posts = Append(mention[p].posts, APOLOGY)
          /\ user_last_active' = user_last_active
          /\ agenda_items' = agenda_items
          /\ mention'[p].added \subseteq Ids(agenda_items')
    /\ user_last_active' # user_last_active =>
          \E p \in Procs :
              /\ EndsBy(p)
              /\ mention'[p].run = "returned"
              /\ user_last_active' = [user_last_active EXCEPT ![mention[p].user] = now]
C30_State ==
    \A p \in Procs :
        /\ (\E k \in 1..Len(mention[p].posts) : mention[p].posts[k] = Answer) =>
              mention[p].run = "returned"
        /\ mention[p].run = "raised" =>
              mention[p].pc = "done" /\ Last(mention[p].posts) = APOLOGY
\* C30: in the mention handler the user's last-active time is written only at
\* the end of a run that returned; when the run raises, the handler says the
\* fixed apology, writes no last-active time, posts no answer, and the agenda
\* rows the run's tool calls stored stay in the table.
C30_RaisedRunLeavesApologyOnly == [][C30_Step]_vars /\ []C30_State
C30_Witness ==
    /\ mention[RESPONDER].pc = "done"
    /\ mention[RESPONDER].run = "raised"
    /\ mention[RESPONDER].added = {1}
    /\ Ids(agenda_items) = {1}
    /\ user_last_active[mention[RESPONDER].user] = 0
    /\ mention[RESPONDER].posts = <<THINKING, APOLOGY>>

====
